---------------------------- MODULE Spec2Model ----------------------------
(***************************************************************************)
(* Model of the CloudVoter fleet: backend/voter_engine.py (VoterInstance,  *)
(* MultiInstanceVoter) and the parts of backend/app.py that drive it.      *)
(*                                                                         *)
(* Every coroutine is cut at its awaits: one action is the code that runs  *)
(* between two suspension points of one task.  Time is an integer count of *)
(* clock ticks, SubSec ticks to the second; datetime.now() is `clock`.     *)
(***************************************************************************)
EXTENDS Integers, Sequences, FiniteSets, TLC

-----------------------------------------------------------------------------
(* Bounds of the model *)

\* clock ticks per second (the resolution below which int() truncates)
SubSec == 2
\* number of VoterInstance objects the fleet run may create
MaxInst == 2
\* number of distinct addresses the proxy provider can hand out
NumIPs == 2
\* minutes that pass in one step of the fleet clock
TickMinutes == 20
\* number of clock steps of a fleet run
MaxTicks == 3
\* votes after which a worker's vote_count is no longer followed
MaxVotes == 1
\* handle_hourly_limit tasks that may be scheduled and not yet run
MaxPending == 1
\* environment faults injected in one behaviour
MaxFaults == 2
\* concurrent get_proxy_ip calls (one per launch in progress)
MaxCallers == 2
\* the provider's clock step, in seconds, and how many of them pass
ProxyTickSeconds == 20
MaxProxyTicks == 5
\* requests sent to the provider in one behaviour
MaxRequests == 7
\* the largest value the vote counter of the page shows
MaxCount == 3

-----------------------------------------------------------------------------
(* Program constants *)

\* Python's None for a timestamp, an address or a task handle
None == -1
\* config.py
BROWSER_LAUNCH_DELAY == 5
MAX_CONCURRENT_BROWSER_LAUNCHES == 3
RETRY_DELAY_TECHNICAL == 5
RETRY_DELAY_COOLDOWN == 31
PROXY_MAX_RETRIES == 3
PROXY_RETRY_DELAY == 2
PROXY_503_CIRCUIT_BREAKER_THRESHOLD == 3
PROXY_503_PAUSE_DURATION == 60
\* voter_engine.py
VoteCooldownMinutes == 31
InitFailureCap == 5
BackoffBase == 30
BackoffMax == 300
ExcludedSleepSeconds == 3600

Sec(n) == n * SubSec
Minutes(n) == Sec(60 * n)
Hour == Minutes(60)
TickStep == Minutes(TickMinutes)
MaxClock == MaxTicks * TickStep

Max(a, b) == IF a > b THEN a ELSE b
Min(a, b) == IF a < b THEN a ELSE b

RECURSIVE Pow(_, _)
Pow(b, e) == IF e = 0 THEN 1 ELSE b * Pow(b, e - 1)

IPs == 1..NumIPs
Slots == 1..MaxInst
\* a worker id: len(active_instances) + 1, or the number of a saved session
InstIds == 1..(NumIPs + 1)

-----------------------------------------------------------------------------
VARIABLES
    clock,                   \* datetime.now(), in ticks
    inst,                    \* the VoterInstance objects, by slot
    active_instances,        \* MultiInstanceVoter.active_instances: the dict as
                             \* its (ip, slot) items in insertion order
    used_ips,                \* MultiInstanceVoter.used_ips
    session_info,            \* brightdata_session_data/instance_N on disk
    global_hourly_limit,
    global_reactivation_time,
    hourly_limit_start_time,
    hourly_limit_check_task, \* None, or the handle of the last watcher task
    watcher,                 \* _check_hourly_limit_expiry tasks outstanding
    hhl_tasks,               \* handle_hourly_limit tasks scheduled, not yet run
    browser_launch_semaphore,\* free permits of the launch gate
    auto_unpause_active,
    unpause_waiting,         \* instances_to_unpause[1:] of the last monitor scan
    consecutive_503_errors,
    circuit_breaker_active,
    circuit_breaker_reset_time,
    proxy_call,              \* the get_proxy_ip calls in progress, by caller
    net_requests,            \* requests sent to the provider so far
    streak_503,              \* length of the current run of 503 responses
    monitoring_active,       \* app.py: the global of the same name
    monitoring_task,         \* app.py: None, the running loop, or cancelled
    browser_monitoring_active,
    time_info,               \* the last get_time_until_next_vote result served
    faults                   \* environment faults injected so far

vars == << clock, inst, active_instances, used_ips, session_info,
           global_hourly_limit, global_reactivation_time,
           hourly_limit_start_time, hourly_limit_check_task, watcher,
           hhl_tasks, browser_launch_semaphore, auto_unpause_active,
           unpause_waiting,
           consecutive_503_errors, circuit_breaker_active,
           circuit_breaker_reset_time, proxy_call, net_requests, streak_503,
           monitoring_active, monitoring_task, browser_monitoring_active,
           time_info, faults >>

fleetVars == << inst, active_instances, used_ips, session_info,
                global_hourly_limit, global_reactivation_time,
                hourly_limit_start_time, hourly_limit_check_task, watcher,
                hhl_tasks, browser_launch_semaphore, auto_unpause_active,
                unpause_waiting >>

throttleVars == << global_hourly_limit, global_reactivation_time,
                   hourly_limit_start_time, hourly_limit_check_task, watcher >>

proxyVars == << consecutive_503_errors, circuit_breaker_active,
                circuit_breaker_reset_time, proxy_call, net_requests,
                streak_503 >>

appVars == << monitoring_active, monitoring_task, browser_monitoring_active,
             time_info >>

\* the environment departs from its nominal answer at most MaxFaults times
inject(anomalous) ==
    /\ anomalous => faults < MaxFaults
    /\ faults' = IF anomalous THEN faults + 1 ELSE faults

-----------------------------------------------------------------------------
(* VoterInstance *)

\* the tasks that call close_browser on an instance: the instance's own
\* task (run_voting_cycle and what it calls) and _browser_monitoring_loop
CloseCallers == { "cycle", "monitor" }

\* VoterInstance.__init__: a fresh object; pc "none" marks a free slot.
\* page, context, browser and playwright tell whether the reference is set;
\* closing[c] is the teardown step at which a close_browser call of task c
\* is suspended, 0 when c has no call in progress.
\* permit_time is the moment of the log line "acquired browser launch lock"
\* (lines 370 and 502) while the permit is held
NewInstance(ip, id) ==
    [ pc |-> "none", proxy_ip |-> ip, instance_id |-> id,
      page |-> FALSE, context |-> FALSE, browser |-> FALSE,
      playwright |-> FALSE, closing |-> [ c \in CloseCallers |-> 0 ],
      browser_start_time |-> None,
      status |-> "Initializing", is_paused |-> FALSE,
      waiting_for_login |-> FALSE, consecutive_init_failures |-> 0,
      excluded_from_cycles |-> FALSE, pause_event |-> TRUE,
      last_vote_time |-> None, last_attempted_vote |-> None,
      last_failure_type |-> "None", vote_count |-> 0, wake |-> None,
      holds_permit |-> FALSE, permit_time |-> None ]

FreeSlot == NewInstance(None, None)

\* max(0, int((deadline - now).total_seconds()))
SecondsUntil(deadline, now) ==
    IF deadline > now THEN (deadline - now) \div SubSec ELSE 0

\* VoterInstance.get_time_until_next_vote
get_time_until_next_vote(r, now, ghl, grt) ==
    IF ghl /\ grt # None
    THEN LET global_seconds == SecondsUntil(grt, now)
             individual_next_time ==
                 IF r.last_vote_time # None
                 THEN r.last_vote_time + Minutes(VoteCooldownMinutes)
                 ELSE None
             individual_seconds ==
                 IF r.last_vote_time # None
                 THEN SecondsUntil(individual_next_time, now)
                 ELSE 0
         IN  IF individual_seconds > global_seconds
             THEN [ seconds_remaining |-> individual_seconds,
                    next_vote_time |-> individual_next_time,
                    status |-> IF individual_seconds > 0 THEN "cooldown" ELSE "ready",
                    retry_type |-> "individual_cooldown_during_global_limit" ]
             ELSE [ seconds_remaining |-> global_seconds,
                    next_vote_time |-> grt,
                    status |-> IF global_seconds > 0 THEN "global_hourly_limit" ELSE "ready",
                    retry_type |-> "global_limit" ]
    ELSE IF r.last_attempted_vote # None /\ r.last_failure_type # "None"
    THEN LET retry_minutes == IF r.last_failure_type = "technical"
                              THEN RETRY_DELAY_TECHNICAL
                              ELSE RETRY_DELAY_COOLDOWN
             retry_label == IF r.last_failure_type = "technical"
                            THEN "retry_retry" ELSE "cooldown_retry"
             next_retry_time == r.last_attempted_vote + Minutes(retry_minutes)
             retry_seconds == SecondsUntil(next_retry_time, now)
             next_vote_time == r.last_vote_time + Minutes(VoteCooldownMinutes)
             vote_seconds == SecondsUntil(next_vote_time, now)
         IN  IF r.last_vote_time # None /\ ~(retry_seconds > vote_seconds)
             THEN [ seconds_remaining |-> vote_seconds,
                    next_vote_time |-> next_vote_time,
                    status |-> IF vote_seconds > 0 THEN "cooldown" ELSE "ready",
                    retry_type |-> "None" ]
             ELSE [ seconds_remaining |-> retry_seconds,
                    next_vote_time |-> next_retry_time,
                    status |-> IF retry_seconds > 0 THEN retry_label ELSE "ready",
                    retry_type |-> r.last_failure_type ]
    ELSE IF r.last_vote_time # None
    THEN LET next_vote_time == r.last_vote_time + Minutes(VoteCooldownMinutes)
             seconds_remaining == SecondsUntil(next_vote_time, now)
         IN  [ seconds_remaining |-> seconds_remaining,
               next_vote_time |-> next_vote_time,
               status |-> IF seconds_remaining > 0 THEN "cooldown" ELSE "ready",
               retry_type |-> "None" ]
    ELSE [ seconds_remaining |-> 0, next_vote_time |-> None,
           status |-> "ready", retry_type |-> "None" ]

\* the value, were the worker's own cooldown left out under the global
\* throttle
TimeInfo_global_only(r) ==
    get_time_until_next_vote(
        IF global_hourly_limit THEN [ r EXCEPT !.last_vote_time = None ] ELSE r,
        clock, global_hourly_limit, global_reactivation_time)

\* the value the running fleet computes for instance record r
TimeInfo(r) ==
    get_time_until_next_vote(r, clock, global_hourly_limit,
                             global_reactivation_time)

\* VoterInstance.close_browser: every reference nil, tracking reset
close_browser(r) ==
    [ r EXCEPT !.page = FALSE, !.context = FALSE, !.browser = FALSE,
               !.playwright = FALSE, !.browser_start_time = None,
               !.status = "Cooldown - Browser Closed" ]

\* lines 399, 422, 442-449 and 454 (533, 556, 573, 580 with a saved
\* session): the four references a completed establishment has set
with_session(r) ==
    [ r EXCEPT !.playwright = TRUE, !.browser = TRUE, !.context = TRUE,
               !.page = TRUE ]

-----------------------------------------------------------------------------
(* The insertion-ordered dict active_instances *)

Keys(d) == { d[i].ip : i \in DOMAIN d }
Values(d) == { d[i].slot : i \in DOMAIN d }

\* d[k] = v: an existing key keeps its place, a new key goes last
DictSet(d, k, v) ==
    IF k \in Keys(d)
    THEN [ i \in DOMAIN d |-> IF d[i].ip = k THEN [ip |-> k, slot |-> v] ELSE d[i] ]
    ELSE Append(d, [ip |-> k, slot |-> v])

\* slots of the instances registered in active_instances, in scan order
Registered == [ i \in DOMAIN active_instances |-> active_instances[i].slot ]

\* a worker is live while it is registered or its cycle task runs
CyclePcs == { "start", "wait", "init", "nav", "probe", "close_global",
              "login", "act", "sleep" }
Live(w) == w \in Values(active_instances) \/ inst[w].pc \in CyclePcs

-----------------------------------------------------------------------------
(* VoterInstance.run_voting_cycle *)

\* the self-unpause, were it to leave the gate as it is
self_unpause_flag_only(r) ==
    IF /\ r.is_paused
       /\ TimeInfo(r).seconds_remaining = 0
       /\ ~r.waiting_for_login
       /\ ~global_hourly_limit
    THEN [ r EXCEPT !.is_paused = FALSE, !.status = "Resumed - Ready to Vote" ]
    ELSE r

\* lines 1630-1642: the worker clears its own pause
self_unpause(r) ==
    IF /\ r.is_paused
       /\ TimeInfo(r).seconds_remaining = 0
       /\ ~r.waiting_for_login
       /\ ~global_hourly_limit
    THEN [ r EXCEPT !.is_paused = FALSE, !.pause_event = TRUE,
                    !.status = "Resumed - Ready to Vote" ]
    ELSE r

\* lines 1647-1657, 1687: past the gate, to establishment or navigation
after_wait(r) ==
    IF ~r.browser \/ ~r.page THEN [ r EXCEPT !.pc = "init" ]
    ELSE [ r EXCEPT !.pc = "nav" ]

\* lines 1610-1645: the top of the loop up to the first suspension
loop_top(r) ==
    IF r.excluded_from_cycles
    THEN [ (IF r.browser THEN close_browser(r) ELSE r)
             EXCEPT !.pc = "sleep", !.wake = clock + Sec(ExcludedSleepSeconds) ]
    ELSE LET u == self_unpause(r)
         IN  IF u.pause_event THEN after_wait(u) ELSE [ u EXCEPT !.pc = "wait" ]

\* asyncio.sleep(seconds), then the next loop iteration
sleep_for(r, ticks) == [ r EXCEPT !.pc = "sleep", !.wake = clock + ticks ]

\* the backoff, were the exponent the count itself
backoff_time_late(n) == Min(BackoffBase * Pow(2, n), BackoffMax)

\* line 1663
backoff_time(n) == Min(BackoffBase * Pow(2, n - 1), BackoffMax)

\* lines 1658-1677: session establishment failed
init_failed(r) ==
    LET n == r.consecutive_init_failures + 1
    IN  IF n >= InitFailureCap
        THEN loop_top([ r EXCEPT !.status = "Init Failed - Paused",
                                 !.is_paused = TRUE, !.pause_event = FALSE,
                                 !.consecutive_init_failures = 0 ])
        ELSE sleep_for([ r EXCEPT !.consecutive_init_failures = n ],
                       Sec(backoff_time(n)))

\* lines 1679-1685: session established
init_succeeded(r) == [ r EXCEPT !.consecutive_init_failures = 0, !.pc = "nav" ]

\* the first segment of the task made by create_task(run_voting_cycle())
CycleStart(w) ==
    /\ inst[w].pc = "start"
    /\ inst' = [ inst EXCEPT ![w] = loop_top(@) ]
    /\ UNCHANGED << clock, active_instances, used_ips, session_info,
                    throttleVars, hhl_tasks, browser_launch_semaphore,
                    auto_unpause_active, unpause_waiting, proxyVars, appVars, faults >>

\* an asyncio.sleep of the loop ends
Wake(w) ==
    /\ inst[w].pc = "sleep"
    /\ clock >= inst[w].wake
    /\ inst' = [ inst EXCEPT ![w] = loop_top([ @ EXCEPT !.wake = None ]) ]
    /\ UNCHANGED << clock, active_instances, used_ips, session_info,
                    throttleVars, hhl_tasks, browser_launch_semaphore,
                    auto_unpause_active, unpause_waiting, proxyVars, appVars, faults >>

\* line 1645: pause_event.wait() returns once the gate is open
Resume(w) ==
    /\ inst[w].pc = "wait"
    /\ inst[w].pause_event
    /\ inst' = [ inst EXCEPT ![w] = after_wait(@) ]
    /\ UNCHANGED << clock, active_instances, used_ips, session_info,
                    throttleVars, hhl_tasks, browser_launch_semaphore,
                    auto_unpause_active, unpause_waiting, proxyVars, appVars, faults >>

-----------------------------------------------------------------------------
(* Session establishment behind the launch-admission gate *)

\* the code after initialize() / initialize_with_saved_session() returned True
established(w, r) ==
    IF r.pc = "init" THEN init_succeeded(r)
    ELSE [ r EXCEPT !.pc = IF r.pc = "l_init" THEN "l_nav" ELSE "r_nav" ]

\* ... returned False: the cycle backs off, a launch gives the object up
not_established(w, r) ==
    IF r.pc = "init" THEN init_failed(r) ELSE FreeSlot

\* the acquisition, were the semaphore to grant a permit it does not have
InitAcquire_ungated(w) ==
    /\ inst[w].pc \in {"init", "l_init", "r_init"}
    /\ ~inst[w].holds_permit
    /\ browser_launch_semaphore >= 0
    /\ browser_launch_semaphore' = browser_launch_semaphore - 1
    /\ inst' = [ inst EXCEPT ![w].holds_permit = TRUE,
                             ![w].permit_time = clock ]
    /\ UNCHANGED << clock, active_instances, used_ips, session_info,
                    throttleVars, hhl_tasks, auto_unpause_active,
                    unpause_waiting, proxyVars, appVars, faults >>

\* VoterInstance.initialize / initialize_with_saved_session, lines 366-369 and
\* 498-501: semaphore.acquire() is granted
InitAcquire(w) ==
    /\ inst[w].pc \in {"init", "l_init", "r_init"}
    /\ ~inst[w].holds_permit
    /\ browser_launch_semaphore > 0
    /\ browser_launch_semaphore' = browser_launch_semaphore - 1
    /\ inst' = [ inst EXCEPT ![w].holds_permit = TRUE,
                             ![w].permit_time = clock ]
    /\ UNCHANGED << clock, active_instances, used_ips, session_info,
                    throttleVars, hhl_tasks, auto_unpause_active,
                    unpause_waiting, proxyVars, appVars, faults >>

\* the timed-out wait, were it to release a permit it never held
InitLockTimeout_releasing(w) ==
    /\ inst[w].pc \in {"init", "l_init", "r_init"}
    /\ ~inst[w].holds_permit
    /\ browser_launch_semaphore = 0
    /\ browser_launch_semaphore' = browser_launch_semaphore + 1
    /\ inst' = [ inst EXCEPT ![w] =
                   not_established(w, [ @ EXCEPT !.status = "Waiting for lock" ]) ]
    /\ UNCHANGED << clock, active_instances, used_ips, session_info,
                    throttleVars, hhl_tasks,
                    auto_unpause_active, unpause_waiting, proxyVars, appVars, faults >>

\* lines 378-381 and 510-513: no permit within 30 s
InitLockTimeout(w) ==
    /\ inst[w].pc \in {"init", "l_init", "r_init"}
    /\ ~inst[w].holds_permit
    /\ browser_launch_semaphore = 0
    /\ inst' = [ inst EXCEPT ![w] =
                   not_established(w, [ @ EXCEPT !.status = "Waiting for lock" ]) ]
    /\ UNCHANGED << clock, active_instances, used_ips, session_info,
                    throttleVars, hhl_tasks, browser_launch_semaphore,
                    auto_unpause_active, unpause_waiting, proxyVars, appVars, faults >>

\* _initialize_browser / _initialize_browser_with_session, lines 391-486 and
\* 525-614, as run under the permit: the session and the status it leaves
initialize_browser(r, res) ==
    IF res = "ok"
    THEN [ with_session(r) EXCEPT !.browser_start_time = clock,
                                  !.status = "Ready" ]
    ELSE [ close_browser(r) EXCEPT
             !.status = IF res = "timeout" THEN "Init Timeout" ELSE "Error" ]

\* the dict after a launch registered instance w (lines 2180-2181, 2272-2273)
register(w, r) ==
    IF r.pc = "init" THEN active_instances
    ELSE DictSet(active_instances, r.proxy_ip, w)

\* lines 370-377 and 502-509: establishment ends, the permit is released in
\* the finally, and the caller goes on
InitDone(w, res) ==
    /\ inject(res # "ok")
    /\ inst[w].pc \in {"init", "l_init", "r_init"}
    /\ inst[w].holds_permit
    /\ browser_launch_semaphore' = browser_launch_semaphore + 1
    /\ LET r == [ initialize_browser(inst[w], res) EXCEPT
                    !.holds_permit = FALSE, !.permit_time = None ]
           ok == res = "ok"
       IN  /\ inst' = [ inst EXCEPT ![w] =
                          IF ok THEN established(w, r) ELSE not_established(w, r) ]
           /\ active_instances' = IF ok THEN register(w, r) ELSE active_instances
           /\ used_ips' = IF ok /\ r.pc # "init"
                          THEN used_ips \cup {r.proxy_ip} ELSE used_ips
    /\ UNCHANGED << clock, session_info, throttleVars, hhl_tasks,
                    auto_unpause_active, unpause_waiting, proxyVars, appVars >>

-----------------------------------------------------------------------------
(* Page text and its classification; a text is page_content.lower() as the
   sequence of its words *)

\* config.py lines 68-77
FAILURE_PATTERNS ==
    << << "hourly", "voting", "limit" >>,
       << "hourly", "limit" >>,
       << "already", "voted" >>,
       << "cooldown" >>,
       << "try", "again", "later" >>,
       << "someone", "has", "already", "voted", "out", "of", "this", "ip" >>,
       << "please", "come", "back", "at", "your", "next", "voting", "time" >>,
       << "wait", "before", "voting", "again" >> >>

\* config.py lines 81-84
GLOBAL_HOURLY_LIMIT_PATTERNS ==
    << << "hourly", "voting", "limit" >>,
       << "hourly", "limit" >> >>

\* config.py lines 88-93
INSTANCE_COOLDOWN_PATTERNS ==
    << << "please", "come", "back", "at", "your", "next", "voting", "time" >>,
       << "already", "voted" >>,
       << "wait", "before", "voting", "again" >>,
       << "someone", "has", "already", "voted", "out", "of", "this", "ip" >> >>

\* the pages a worker can meet, by name
PageText(page) ==
    CASE page \in { "global", "global_limit" } ->
           << "you", "have", "reached", "your", "hourly", "voting", "limit" >>
      [] page = "legacy_limit" ->
           << "you", "reached", "your", "hourly", "limit" >>
      [] page \in { "instance", "instance_cooldown" } ->
           << "please", "come", "back", "at", "your", "next", "voting", "time" >>
      [] page = "ip_mismatch" ->
           << "someone", "has", "already", "voted", "out", "of", "this", "ip" >>
      [] page = "limit_and_cooldown" ->
           << "hourly", "voting", "limit", "please", "come", "back", "at",
              "your", "next", "voting", "time" >>
      [] page = "limit_and_mismatch" ->
           << "hourly", "limit", "someone", "has", "already", "voted", "out",
              "of", "this", "ip" >>
      [] page = "try_later" ->
           << "please", "try", "again", "later" >>
      [] page = "unknown" ->
           << "voting", "button", "is", "temporarily", "disabled" >>
      [] OTHER -> << >>

\* pattern in page_content.lower()
Infix(pattern, text) ==
    \E i \in 0..(Len(text) - Len(pattern)) :
        SubSeq(text, i + 1, i + Len(pattern)) = pattern

\* any(pattern in page_content.lower() for pattern in patterns)
any_pattern(patterns, text) ==
    \E i \in DOMAIN patterns : Infix(patterns[i], text)

\* the for loop with break of lines 1182-1191: the first pattern of the list
\* found in the text, << >> for None
matched_pattern(patterns, text) ==
    IF any_pattern(patterns, text)
    THEN patterns[CHOOSE i \in DOMAIN patterns :
                    /\ Infix(patterns[i], text)
                    /\ \A j \in 1..(i - 1) : ~Infix(patterns[j], text)]
    ELSE << >>

\* the classification, were every failure text of global scope
is_limit_of_any_scope(text) == any_pattern(FAILURE_PATTERNS, text)

\* lines 1176, 1469, 1714
is_global_limit(text) == any_pattern(GLOBAL_HOURLY_LIMIT_PATTERNS, text)

\* lines 1177, 1470, 1715
is_instance_cooldown(text) == any_pattern(INSTANCE_COOLDOWN_PATTERNS, text)

-----------------------------------------------------------------------------
(* run_voting_cycle, one iteration past session establishment *)

\* navigation, were navigate_to_voting_page to lack the test of line 645 and
\* its handler: without a page the error reaches the handler around the loop
Nav_unguarded(w, ok) ==
    /\ inject(~ok /\ inst[w].page)
    /\ inst[w].pc = "nav"
    /\ ok => inst[w].page
    /\ inst' = [ inst EXCEPT ![w] =
                   IF ~@.page
                   THEN [ close_browser([ @ EXCEPT !.status =
                                            "Cycle Error - Recovering" ])
                            EXCEPT !.pc = "error_sleep",
                                   !.wake = clock + Sec(60) ]
                   ELSE IF ok THEN [ @ EXCEPT !.pc = "probe" ]
                   ELSE sleep_for(close_browser(@), Sec(30)) ]
    /\ UNCHANGED << clock, active_instances, used_ips, session_info,
                    throttleVars, hhl_tasks, browser_launch_semaphore,
                    auto_unpause_active, unpause_waiting, proxyVars, appVars >>

\* lines 1687-1699: navigate_to_voting_page; without a page it fails
Nav(w, ok) ==
    /\ inject(~ok /\ inst[w].page)
    /\ inst[w].pc = "nav"
    /\ ok => inst[w].page
    /\ inst' = [ inst EXCEPT ![w] =
                   IF ok THEN [ @ EXCEPT !.pc = "probe" ]
                   ELSE sleep_for(close_browser(@), Sec(30)) ]
    /\ UNCHANGED << clock, active_instances, used_ips, session_info,
                    throttleVars, hhl_tasks, browser_launch_semaphore,
                    auto_unpause_active, unpause_waiting, proxyVars, appVars >>

\* what the banner probe can give: no banner, a page whose text is then
\* classified, or a page whose content cannot be read
Banners == { "none", "global", "instance", "unknown", "error" }

\* lines 1701-1774: check_hourly_voting_limit and the classification, up to
\* the await of close_browser
Probe(w, banner) ==
    /\ inject(banner # "none")
    /\ inst[w].pc = "probe"
    /\ banner # "none" => inst[w].browser
    /\ inst' = [ inst EXCEPT ![w] =
         CASE banner = "none" -> [ @ EXCEPT !.pc = "login" ]
           [] banner = "error" -> loop_top(close_browser(@))
           [] banner \notin { "none", "error" }
              /\ is_global_limit(PageText(banner)) ->
                [ @ EXCEPT !.status = "Hourly Limit - Paused",
                           !.last_failure_type = "ip_cooldown",
                           !.pc = "close_global" ]
           [] banner \notin { "none", "error" }
              /\ ~is_global_limit(PageText(banner))
              /\ is_instance_cooldown(PageText(banner)) ->
                loop_top(close_browser([ @ EXCEPT
                           !.last_failure_type = "ip_cooldown" ]))
           [] OTHER -> loop_top(close_browser(@)) ]
    /\ UNCHANGED << clock, active_instances, used_ips, session_info,
                    throttleVars, hhl_tasks, browser_launch_semaphore,
                    auto_unpause_active, unpause_waiting, proxyVars, appVars >>

\* lines 1740-1749: the session is closed, handle_hourly_limit is scheduled,
\* the worker pauses itself and goes to the top of the loop
CloseGlobal(w) ==
    /\ inst[w].pc = "close_global"
    /\ hhl_tasks < MaxPending
    /\ hhl_tasks' = hhl_tasks + 1
    /\ inst' = [ inst EXCEPT ![w] =
                   loop_top([ close_browser(@) EXCEPT !.is_paused = TRUE,
                                                      !.pause_event = FALSE ]) ]
    /\ UNCHANGED << clock, active_instances, used_ips, session_info,
                    throttleVars, browser_launch_semaphore,
                    auto_unpause_active, unpause_waiting, proxyVars, appVars, faults >>

\* lines 1776-1798: check_login_required, then the pause check before acting
Login(w, required) ==
    /\ inject(required)
    /\ inst[w].pc = "login"
    /\ required => inst[w].browser
    /\ inst' = [ inst EXCEPT ![w] =
         IF required
         THEN LET p == [ @ EXCEPT !.status = "Waiting for Login",
                                  !.waiting_for_login = TRUE,
                                  !.is_paused = TRUE, !.pause_event = FALSE ]
              IN  loop_top(IF p.browser THEN close_browser(p) ELSE p)
         ELSE IF @.is_paused THEN sleep_for(@, Sec(10))
         ELSE [ @ EXCEPT !.pc = "act" ] ]
    /\ UNCHANGED << clock, active_instances, used_ips, session_info,
                    throttleVars, hhl_tasks, browser_launch_semaphore,
                    auto_unpause_active, unpause_waiting, proxyVars, appVars >>

-----------------------------------------------------------------------------
(* VoterInstance.attempt_vote *)

\* how an attempt can end: the counter rose by exactly one (at once or on
\* the retry click); the counter was unreadable and the text says success;
\* nothing was recorded (a rise above one, a page-content timeout); a
\* technical failure; a visible login button; the counter did not move and
\* the page shows the text of that name
Outcomes == { "verified", "unverified", "no_change", "technical",
              "instance_cooldown", "ip_mismatch", "global_limit",
              "login_button" }

\* the outcomes that are not a page text
PlainOutcomes == { "verified", "unverified", "no_change", "technical",
                   "login_button" }

\* lines 1243-1245 and 1519-1521: the attempt schedules handle_hourly_limit
schedules_handler(outcome) ==
    /\ outcome \notin PlainOutcomes
    /\ any_pattern(FAILURE_PATTERNS, PageText(outcome))
    /\ is_global_limit(PageText(outcome))

\* the persistence step, were it to write nothing
save_session_data_skipped(r) == session_info

\* lines 1573-1603: save_session_data writes session_info.json
save_session_data(r) ==
    [ session_info EXCEPT ![r.instance_id] =
        [ present |-> TRUE, proxy_ip |-> r.proxy_ip,
          last_vote_time |-> r.last_vote_time, vote_count |-> r.vote_count ] ]

\* lines 1355-1381 (and 912-931, 1531-1571): a technical failure
technical_failure(r) ==
    close_browser([ r EXCEPT !.last_attempted_vote = clock,
                             !.last_failure_type = "technical" ])

\* lines 1115-1247: the counter did not move and the page text is looked up
text_failure(r, text) ==
    IF any_pattern(FAILURE_PATTERNS, text)
    THEN close_browser([ r EXCEPT
           !.last_attempted_vote = clock,
           !.last_failure_type =
              IF matched_pattern(INSTANCE_COOLDOWN_PATTERNS, text) =
                   << "someone", "has", "already", "voted", "out", "of",
                      "this", "ip" >>
              THEN "proxy_ip_mismatch" ELSE "ip_cooldown" ])
    ELSE technical_failure(r)

\* lines 854-1571: the instance after attempt_vote ended with `outcome`;
\* "no_page" is the return of line 864, taken when the page reference is nil
attempt_vote(r, outcome) ==
    CASE outcome = "verified" ->
           close_browser([ r EXCEPT !.last_vote_time = clock,
                                    !.last_attempted_vote = clock,
                                    !.last_failure_type = "None",
                                    !.vote_count = @ + 1 ])
      [] outcome = "unverified" ->
           [ r EXCEPT !.last_vote_time = clock, !.vote_count = @ + 1 ]
      [] outcome = "no_change" -> r
      [] outcome = "no_page" -> r
      [] outcome = "technical" -> technical_failure(r)
      [] outcome \notin PlainOutcomes ->
           text_failure(r, PageText(outcome))
      [] outcome = "login_button" ->
           IF r.browser_start_time # None
              /\ clock - r.browser_start_time < Sec(30) /\ r.vote_count > 0
           THEN technical_failure(r)
           ELSE close_browser([ r EXCEPT !.excluded_from_cycles = TRUE,
                                         !.status = "Login Required - EXCLUDED",
                                         !.is_paused = TRUE,
                                         !.pause_event = FALSE ])

attempt_succeeded(outcome) == outcome \in {"verified", "unverified"}

\* run_voting_cycle, lines 1803-1841: the session is closed and the worker
\* sleeps for the delay its outcome selects
after_attempt(r, success) ==
    IF success
    THEN sleep_for(close_browser([ r EXCEPT !.status = "Vote Successful" ]),
                   Minutes(RETRY_DELAY_COOLDOWN))
    ELSE LET c == close_browser(r)
         IN  CASE c.last_failure_type = "proxy_ip_mismatch" ->
                    sleep_for([ c EXCEPT !.status = "Proxy IP mismatch" ],
                              Minutes(RETRY_DELAY_TECHNICAL))
               [] c.last_failure_type = "ip_cooldown" ->
                    sleep_for([ c EXCEPT !.status = "Cooldown" ],
                              Minutes(RETRY_DELAY_COOLDOWN))
               [] OTHER ->
                    sleep_for([ c EXCEPT !.status = "Retry" ],
                              Minutes(RETRY_DELAY_TECHNICAL))

\* line 1801 to the sleep: attempt_vote runs and the cycle handles its result
Act(w, outcome) ==
    /\ inject(outcome \notin { "verified", "no_page" })
    /\ inst[w].pc = "act"
    /\ (outcome = "no_page") <=> ~inst[w].page
    /\ attempt_succeeded(outcome) => inst[w].vote_count < MaxVotes
    /\ schedules_handler(outcome) => hhl_tasks < MaxPending
    /\ LET r == attempt_vote(inst[w], outcome)
       IN  /\ inst' = [ inst EXCEPT ![w] =
                          after_attempt(r, attempt_succeeded(outcome)) ]
           /\ session_info' = IF attempt_succeeded(outcome)
                              THEN save_session_data(r) ELSE session_info
    /\ hhl_tasks' = IF schedules_handler(outcome)
                    THEN hhl_tasks + 1 ELSE hhl_tasks
    /\ UNCHANGED << clock, active_instances, used_ips, throttleVars,
                    browser_launch_semaphore, auto_unpause_active,
                    unpause_waiting, proxyVars, appVars >>

-----------------------------------------------------------------------------
(* MultiInstanceVoter: launching workers *)

NoSession == [ present |-> FALSE, proxy_ip |-> None, last_vote_time |-> None,
               vote_count |-> 0 ]

\* a session saved by an earlier run through app.py complete_google_login
LoginSession(ip) == [ present |-> TRUE, proxy_ip |-> ip,
                      last_vote_time |-> None, vote_count |-> 0 ]

\* launches take the lowest free slot for the object they create
FreeSlots == { w \in DOMAIN inst : inst[w].pc = "none" }
IsNextFree(w) == w \in FreeSlots /\ \A v \in FreeSlots : w <= v

\* VoterInstance.check_last_vote_cooldown, lines 616-640
check_last_vote_cooldown(id) ==
    ~( /\ session_info[id].present
       /\ session_info[id].last_vote_time # None
       /\ clock - session_info[id].last_vote_time < Minutes(VoteCooldownMinutes) )

\* the addresses get_proxy_ip must not return, line 2152
excluded_ips == Keys(active_instances) \cup used_ips

\* launch_new_instance, lines 2148-2179: the provider answers with address
\* `ip` (the first one not excluded), the object is made and initialize()
\* reaches the gate
LaunchNew(w, ip) ==
    /\ IsNextFree(w)
    /\ ~circuit_breaker_active
    /\ ip \notin excluded_ips
    /\ \A j \in IPs : j < ip => j \in excluded_ips
    /\ LET next_instance_id == Len(active_instances) + 1
       IN  /\ next_instance_id \in InstIds
           /\ check_last_vote_cooldown(next_instance_id)
           /\ inst' = [ inst EXCEPT ![w] =
                [ NewInstance(ip, next_instance_id) EXCEPT !.pc = "l_init" ] ]
    /\ UNCHANGED << clock, active_instances, used_ips, session_info,
                    throttleVars, hhl_tasks, browser_launch_semaphore,
                    auto_unpause_active, unpause_waiting, proxyVars, appVars, faults >>

\* app.py check_ready_instances, lines 903-1026: a saved session whose
\* worker is not active and whose last recorded success is 31 minutes old
session_ready(id) ==
    /\ session_info[id].present
    /\ \A v \in Values(active_instances) : inst[v].instance_id # id
    /\ \/ session_info[id].last_vote_time = None
       \/ clock - session_info[id].last_vote_time >= Minutes(VoteCooldownMinutes)

\* launch_instance_from_saved_session, lines 2204-2271, as the monitoring
\* loop of app.py calls it (lines 231-246, one restore awaited at a time):
\* the saved address is reused
LaunchRestore(w, id) ==
    /\ IsNextFree(w)
    /\ \A v \in DOMAIN inst : inst[v].pc \notin {"r_init", "r_nav"}
    /\ ~global_hourly_limit
    /\ session_ready(id)
    /\ inst' = [ inst EXCEPT ![w] =
         [ NewInstance(session_info[id].proxy_ip, id) EXCEPT !.pc = "r_init" ] ]
    /\ UNCHANGED << clock, active_instances, used_ips, session_info,
                    throttleVars, hhl_tasks, browser_launch_semaphore,
                    auto_unpause_active, unpause_waiting, proxyVars, appVars, faults >>

\* launch_new_instance, lines 2185-2196: the cycle task is created unless
\* the page asks for a login
LaunchNav(w, login) ==
    /\ inject(login)
    /\ inst[w].pc = "l_nav"
    /\ inst' = [ inst EXCEPT ![w] =
         IF login
         THEN [ @ EXCEPT !.status = "Waiting for Login",
                         !.waiting_for_login = TRUE, !.pc = "idle" ]
         ELSE [ @ EXCEPT !.pc = "start" ] ]
    /\ UNCHANGED << clock, active_instances, used_ips, session_info,
                    throttleVars, hhl_tasks, browser_launch_semaphore,
                    auto_unpause_active, unpause_waiting, proxyVars, appVars >>

\* launch_instance_from_saved_session, lines 2277-2292
RestoreNav(w, nav_success, login) ==
    /\ inject(~nav_success \/ login)
    /\ inst[w].pc = "r_nav"
    /\ inst' = [ inst EXCEPT ![w] =
         IF ~nav_success
         THEN [ @ EXCEPT !.status = "Navigation Failed", !.pc = "idle" ]
         ELSE IF login
         THEN [ @ EXCEPT !.status = "Waiting for Login",
                         !.waiting_for_login = TRUE, !.pc = "idle" ]
         ELSE [ @ EXCEPT !.pc = "start" ] ]
    /\ UNCHANGED << clock, active_instances, used_ips, session_info,
                    throttleVars, hhl_tasks, browser_launch_semaphore,
                    auto_unpause_active, unpause_waiting, proxyVars, appVars >>

-----------------------------------------------------------------------------
(* MultiInstanceVoter: the global throttle *)

\* line 2315: (now + 1 hour) with minute, second and microsecond zeroed
next_hour(now) == ((now + Hour) \div Hour) * Hour

\* the pause loop, were it to skip the instances whose session is closed
pause_all_open(f) ==
    [ w \in DOMAIN f |->
        IF w \in Values(active_instances) /\ ~f[w].is_paused /\ f[w].browser
        THEN [ f[w] EXCEPT !.is_paused = TRUE, !.pause_event = FALSE,
                           !.status = "Paused - Hourly Limit" ]
        ELSE f[w] ]

\* lines 2320-2328: every registered instance that is not paused is paused
pause_all(f) ==
    [ w \in DOMAIN f |->
        IF w \in Values(active_instances) /\ ~f[w].is_paused
        THEN [ f[w] EXCEPT !.is_paused = TRUE, !.pause_event = FALSE,
                           !.status = "Paused - Hourly Limit" ]
        ELSE f[w] ]

\* the handler, were it to lack the guard of lines 2305-2306
HandleHourlyLimit_unguarded ==
    /\ hhl_tasks > 0
    /\ hhl_tasks' = hhl_tasks - 1
    /\ global_hourly_limit' = TRUE
    /\ hourly_limit_start_time' = clock
    /\ global_reactivation_time' = ((clock + Hour) \div Hour) * Hour
    /\ inst' = [ w \in DOMAIN inst |->
                   IF w \in Values(active_instances) /\ ~inst[w].is_paused
                   THEN [ inst[w] EXCEPT !.is_paused = TRUE,
                                         !.pause_event = FALSE,
                                         !.status = "Paused - Hourly Limit" ]
                   ELSE inst[w] ]
    /\ IF hourly_limit_check_task = "None"
       THEN /\ hourly_limit_check_task' = "Task"
            /\ watcher' = watcher + 1
       ELSE UNCHANGED << hourly_limit_check_task, watcher >>
    /\ UNCHANGED << clock, active_instances, used_ips, session_info,
                    browser_launch_semaphore, auto_unpause_active,
                    unpause_waiting, proxyVars, appVars, faults >>

\* handle_hourly_limit, lines 2302-2339: one scheduled task runs
HandleHourlyLimit ==
    /\ hhl_tasks > 0
    /\ hhl_tasks' = hhl_tasks - 1
    /\ IF global_hourly_limit
       THEN UNCHANGED << inst, throttleVars >>
       ELSE /\ global_hourly_limit' = TRUE
            /\ hourly_limit_start_time' = clock
            /\ global_reactivation_time' = next_hour(clock)
            /\ inst' = pause_all(inst)
            /\ IF hourly_limit_check_task = "None"
               THEN /\ hourly_limit_check_task' = "Task"
                    /\ watcher' = watcher + 1
               ELSE UNCHANGED << hourly_limit_check_task, watcher >>
    /\ UNCHANGED << clock, active_instances, used_ips, session_info,
                    browser_launch_semaphore, auto_unpause_active,
                    unpause_waiting, proxyVars, appVars, faults >>

\* the poll, were it to lack the comparison of line 2349
WatcherExpire_early ==
    /\ watcher > 0
    /\ global_hourly_limit' = FALSE
    /\ global_reactivation_time' =
         IF global_hourly_limit THEN None ELSE global_reactivation_time
    /\ hourly_limit_start_time' =
         IF global_hourly_limit THEN None ELSE hourly_limit_start_time
    /\ hourly_limit_check_task' = "None"
    /\ watcher' = watcher - 1
    /\ UNCHANGED << clock, inst, active_instances, used_ips, session_info,
                    hhl_tasks, browser_launch_semaphore, auto_unpause_active,
                    unpause_waiting, proxyVars, appVars, faults >>

\* the poll, were it to resume the paused workers itself at the deadline
WatcherExpire_resuming ==
    /\ watcher > 0
    /\ global_hourly_limit =>
         global_reactivation_time # None /\ clock >= global_reactivation_time
    /\ global_hourly_limit' = FALSE
    /\ global_reactivation_time' =
         IF global_hourly_limit THEN None ELSE global_reactivation_time
    /\ hourly_limit_start_time' =
         IF global_hourly_limit THEN None ELSE hourly_limit_start_time
    /\ hourly_limit_check_task' = "None"
    /\ watcher' = watcher - 1
    /\ inst' = [ w \in DOMAIN inst |->
                   IF /\ global_hourly_limit
                      /\ w \in Values(active_instances)
                      /\ inst[w].is_paused
                      /\ inst[w].status = "Paused - Hourly Limit"
                   THEN [ inst[w] EXCEPT !.is_paused = FALSE,
                                         !.pause_event = TRUE,
                                         !.status = "Resumed - Ready to Vote" ]
                   ELSE inst[w] ]
    /\ UNCHANGED << clock, active_instances, used_ips, session_info,
                    hhl_tasks, browser_launch_semaphore, auto_unpause_active,
                    unpause_waiting, proxyVars, appVars, faults >>

\* _check_hourly_limit_expiry, lines 2341-2378: a poll that ends the task,
\* at the deadline (the flag is cleared) or with the flag found clear
WatcherExpire ==
    /\ watcher > 0
    /\ global_hourly_limit =>
         global_reactivation_time # None /\ clock >= global_reactivation_time
    /\ global_hourly_limit' = FALSE
    /\ global_reactivation_time' =
         IF global_hourly_limit THEN None ELSE global_reactivation_time
    /\ hourly_limit_start_time' =
         IF global_hourly_limit THEN None ELSE hourly_limit_start_time
    /\ hourly_limit_check_task' = "None"
    /\ watcher' = watcher - 1
    /\ UNCHANGED << clock, inst, active_instances, used_ips, session_info,
                    hhl_tasks, browser_launch_semaphore, auto_unpause_active,
                    unpause_waiting, proxyVars, appVars, faults >>

\* lines 2380-2385: the task is cancelled in its sleep, or raises; the
\* handlers log and the task ends
WatcherAbort ==
    /\ inject(TRUE)
    /\ watcher > 0
    /\ watcher' = watcher - 1
    /\ UNCHANGED << clock, inst, active_instances, used_ips, session_info,
                    global_hourly_limit, global_reactivation_time,
                    hourly_limit_start_time, hourly_limit_check_task,
                    hhl_tasks, browser_launch_semaphore, auto_unpause_active,
                    unpause_waiting, proxyVars, appVars >>

-----------------------------------------------------------------------------
(* MultiInstanceVoter: the auto-unpause monitor *)

\* lines 2440-2447
StartAutoUnpauseMonitoring ==
    /\ ~auto_unpause_active
    /\ auto_unpause_active' = TRUE
    /\ UNCHANGED << clock, inst, active_instances, used_ips, session_info,
                    throttleVars, hhl_tasks, browser_launch_semaphore,
                    unpause_waiting, proxyVars, appVars, faults >>

\* the monitor's test, were it to lack the skip of lines 2399-2400
ready_to_unpause_any(r) ==
    /\ r.is_paused
    /\ ~r.waiting_for_login
    /\ TimeInfo(r).seconds_remaining = 0
    /\ ~global_hourly_limit

\* the monitor's test, were it to lack the waiting_for_login test of
\* line 2402
ready_to_unpause_logins(r) ==
    /\ ~r.excluded_from_cycles
    /\ r.is_paused
    /\ TimeInfo(r).seconds_remaining = 0
    /\ ~global_hourly_limit

\* the monitor's test, were it to lack the is_paused test of line 2402
ready_to_unpause_released(r) ==
    /\ ~r.excluded_from_cycles
    /\ ~r.waiting_for_login
    /\ TimeInfo(r).seconds_remaining = 0
    /\ ~global_hourly_limit

\* lines 2397-2410: the test an instance passes to be collected
ready_to_unpause(r) ==
    /\ ~r.excluded_from_cycles
    /\ r.is_paused
    /\ ~r.waiting_for_login
    /\ TimeInfo(r).seconds_remaining = 0
    /\ ~global_hourly_limit

\* instances_to_unpause, in the order of the scan
instances_to_unpause ==
    LET Ready(w) == ready_to_unpause(inst[w])
    IN  SelectSeq(Registered, Ready)

\* lines 2392-2425: one pass of the loop
AutoUnpauseTick ==
    /\ auto_unpause_active
    /\ IF instances_to_unpause # << >>
       THEN /\ inst' = [ inst EXCEPT ![Head(instances_to_unpause)] =
                  [ @ EXCEPT !.is_paused = FALSE, !.pause_event = TRUE,
                             !.status = "Resumed - Ready to Vote" ] ]
            /\ unpause_waiting' = Tail(instances_to_unpause)
       ELSE /\ inst' = inst
            /\ unpause_waiting' = << >>
    /\ UNCHANGED << clock, active_instances, used_ips, session_info,
                    throttleVars, hhl_tasks, browser_launch_semaphore,
                    auto_unpause_active, proxyVars, appVars, faults >>

-----------------------------------------------------------------------------
(* The fleet *)

\* the steps that take seconds: a scheduled task runs, a sleep that is over
\* returns, a page operation completes
Prompt ==
    \/ HandleHourlyLimit
    \/ \E w \in DOMAIN inst :
         \/ CycleStart(w) \/ Wake(w) \/ Resume(w) \/ InitAcquire(w)
         \/ CloseGlobal(w)
         \/ \E res \in {"ok", "error", "timeout"} : InitDone(w, res)
         \/ \E ok \in BOOLEAN : Nav(w, ok)
         \/ \E banner \in Banners : Probe(w, banner)
         \/ \E required \in BOOLEAN : Login(w, required)
         \/ \E outcome \in Outcomes : Act(w, outcome)
         \/ \E login \in BOOLEAN : LaunchNav(w, login)
         \/ \E ok \in BOOLEAN, login \in BOOLEAN : RestoreNav(w, ok, login)

\* time passes, by one tick of the clock, once no prompt step is due
Tick ==
    /\ ~ENABLED Prompt
    /\ clock + TickStep <= MaxClock
    /\ clock' = clock + TickStep
    /\ UNCHANGED << fleetVars, proxyVars, appVars, faults >>

\* no result served yet
NoTimeInfo == [ at |-> None, seconds_remaining |-> 0, next_vote_time |-> None,
               status |-> "none", retry_type |-> "None" ]

\* app.py lines 47-48 and MultiInstanceVoter.__init__ lines 2047-2048:
\* nothing started
AppIdle ==
    /\ monitoring_active = FALSE
    /\ monitoring_task = "None"
    /\ browser_monitoring_active = FALSE
    /\ time_info = NoTimeInfo

\* the session directory an earlier run left: the saved session of the
\* instance numbered last, made behind the first address
InitialDisk ==
    [ i \in InstIds |-> IF i = NumIPs THEN LoginSession(1) ELSE NoSession ]

\* MultiInstanceVoter.__init__, lines 2009-2062
Init ==
    /\ clock = 0
    /\ inst = [ w \in Slots |-> FreeSlot ]
    /\ active_instances = << >>
    /\ used_ips = {}
    /\ session_info = InitialDisk
    /\ global_hourly_limit = FALSE
    /\ global_reactivation_time = None
    /\ hourly_limit_start_time = None
    /\ hourly_limit_check_task = "None"
    /\ watcher = 0
    /\ hhl_tasks = 0
    /\ browser_launch_semaphore = MAX_CONCURRENT_BROWSER_LAUNCHES
    /\ auto_unpause_active = FALSE
    /\ unpause_waiting = << >>
    /\ consecutive_503_errors = 0
    /\ circuit_breaker_active = FALSE
    /\ circuit_breaker_reset_time = None
    /\ proxy_call = << >>
    /\ net_requests = 0
    /\ streak_503 = 0
    /\ AppIdle
    /\ faults = 0

Next ==
    \/ Tick
    \/ \E w \in Slots, ip \in IPs : LaunchNew(w, ip)
    \/ \E w \in Slots, id \in InstIds : LaunchRestore(w, id)
    \/ \E w \in Slots : InitAcquire(w)
    \/ \E w \in Slots, res \in {"ok", "error", "timeout"} : InitDone(w, res)
    \/ \E w \in Slots, login \in BOOLEAN : LaunchNav(w, login)
    \/ \E w \in Slots, ok \in BOOLEAN, login \in BOOLEAN : RestoreNav(w, ok, login)
    \/ \E w \in Slots : CycleStart(w)
    \/ \E w \in Slots : Wake(w)
    \/ \E w \in Slots : Resume(w)
    \/ \E w \in Slots, ok \in BOOLEAN : Nav(w, ok)
    \/ \E w \in Slots, banner \in Banners : Probe(w, banner)
    \/ \E w \in Slots : CloseGlobal(w)
    \/ \E w \in Slots, required \in BOOLEAN : Login(w, required)
    \/ \E w \in Slots, outcome \in Outcomes : Act(w, outcome)
    \/ HandleHourlyLimit
    \/ WatcherExpire
    \/ WatcherAbort
    \/ StartAutoUnpauseMonitoring
    \/ AutoUnpauseTick

Spec == Init /\ [][Next]_vars

-----------------------------------------------------------------------------
(* The launch gate under contention: one more registered worker than the
   gate has permits, each with its session closed and due to re-establish it *)

GateSlots == 1..(MAX_CONCURRENT_BROWSER_LAUNCHES + 1)

\* a worker whose attempt found the count unchanged: session closed, asleep
\* for the technical retry delay
Retrying(w) ==
    after_attempt(attempt_vote(with_session(NewInstance(w, w)),
                               "no_change"), FALSE)

\* a worker asleep in the backoff after its fourth failed re-establishment
BackedOff(w) ==
    sleep_for([ initialize_browser(Retrying(w), "error") EXCEPT
                  !.consecutive_init_failures = InitFailureCap - 1 ],
              Sec(backoff_time(InitFailureCap - 1)))

\* a worker asleep in the backoff after its third failed re-establishment
BackedOffEarlier(w) ==
    sleep_for([ initialize_browser(Retrying(w), "error") EXCEPT
                  !.consecutive_init_failures = InitFailureCap - 2 ],
              Sec(backoff_time(InitFailureCap - 2)))

InitGate ==
    /\ clock = 0
    /\ \E first \in { "Retrying", "BackedOff", "BackedOffEarlier" } :
         inst = [ w \in GateSlots |->
                    CASE w = 1 /\ first = "BackedOff" -> BackedOff(w)
                      [] w = 1 /\ first = "BackedOffEarlier" ->
                           BackedOffEarlier(w)
                      [] OTHER -> Retrying(w) ]
    /\ active_instances = [ w \in GateSlots |-> [ ip |-> w, slot |-> w ] ]
    /\ used_ips = GateSlots
    /\ session_info = [ i \in GateSlots |-> NoSession ]
    /\ global_hourly_limit = FALSE
    /\ global_reactivation_time = None
    /\ hourly_limit_start_time = None
    /\ hourly_limit_check_task = "None"
    /\ watcher = 0
    /\ hhl_tasks = 0
    /\ browser_launch_semaphore = MAX_CONCURRENT_BROWSER_LAUNCHES
    /\ auto_unpause_active = FALSE
    /\ unpause_waiting = << >>
    /\ consecutive_503_errors = 0
    /\ circuit_breaker_active = FALSE
    /\ circuit_breaker_reset_time = None
    /\ proxy_call = << >>
    /\ net_requests = 0
    /\ streak_503 = 0
    /\ AppIdle
    /\ faults = MaxFaults - 1

NextGate ==
    \/ Tick
    \/ \E w \in GateSlots : Wake(w)
    \/ \E w \in GateSlots : InitAcquire(w)
    \/ \E w \in GateSlots : InitLockTimeout(w)
    \/ \E w \in GateSlots, res \in {"ok", "error", "timeout"} : InitDone(w, res)
    \/ \E w \in GateSlots, ok \in BOOLEAN : Nav(w, ok)
    \/ \E w \in GateSlots, banner \in Banners : Probe(w, banner)
    \/ \E w \in GateSlots : CloseGlobal(w)
    \/ \E w \in GateSlots, required \in BOOLEAN : Login(w, required)
    \/ \E w \in GateSlots, outcome \in Outcomes : Act(w, outcome)
    \/ HandleHourlyLimit
    \/ WatcherExpire

SpecGate == InitGate /\ [][NextGate]_vars

-----------------------------------------------------------------------------
(* MultiInstanceVoter.get_proxy_ip: retries and the circuit breaker *)

Callers == 1..MaxCallers

\* what one request to the provider comes back with: an address, an address
\* of the exclusion list, no address, HTTP 503, another HTTP error, or any
\* other exception
Responses == { "ip", "excluded", "empty", "503", "http_error", "error" }

\* no call in progress; `last` is how the caller's last call went
IdleCall(last) == [ pc |-> "idle", attempt |-> 0, wake |-> None, last |-> last ]

\* the window test, were it to use <= for <
breaker_blocks_inclusive(now) ==
    circuit_breaker_active /\ now <= circuit_breaker_reset_time

\* lines 2071-2075: the breaker is open and its window has not elapsed
breaker_blocks(now) ==
    circuit_breaker_active /\ now < circuit_breaker_reset_time

\* the request, were the loop to retry without the bound of range(PROXY_MAX_RETRIES)
proxy_request_unbounded(c, attempt, resp, errors, active) ==
    /\ net_requests < MaxRequests
    /\ net_requests' = net_requests + 1
    /\ LET n == errors + 1
           tripped == resp = "503" /\ n >= PROXY_503_CIRCUIT_BREAKER_THRESHOLD
           retry == resp \in {"503", "error"} /\ ~tripped
       IN  /\ consecutive_503_errors' =
                 CASE resp = "ip" -> 0
                   [] resp = "503" -> n
                   [] OTHER -> errors
           /\ circuit_breaker_active' = (tripped \/ active)
           /\ circuit_breaker_reset_time' =
                 IF tripped THEN clock + Sec(PROXY_503_PAUSE_DURATION)
                 ELSE circuit_breaker_reset_time
           /\ proxy_call' = [ proxy_call EXCEPT ![c] =
                 IF retry
                 THEN [ pc |-> "sleep", attempt |-> attempt,
                        wake |-> clock + Sec(Pow(PROXY_RETRY_DELAY, attempt + 1)),
                        last |-> "retrying" ]
                 ELSE IdleCall(IF resp = "ip" THEN "ok" ELSE "failed") ]

\* lines 2083-2145: request number `attempt` of caller c is sent and `resp`
\* comes back; errors and active are the counter and the breaker flag as
\* the entry check left them
proxy_request(c, attempt, resp, errors, active) ==
    /\ net_requests < MaxRequests
    /\ net_requests' = net_requests + 1
    /\ LET n == errors + 1
           tripped == resp = "503" /\ n >= PROXY_503_CIRCUIT_BREAKER_THRESHOLD
           retry == /\ resp \in {"503", "error"}
                    /\ ~tripped
                    /\ attempt < PROXY_MAX_RETRIES - 1
       IN  /\ consecutive_503_errors' =
                 CASE resp = "ip" -> 0
                   [] resp = "503" -> n
                   [] OTHER -> errors
           /\ circuit_breaker_active' = (tripped \/ active)
           /\ circuit_breaker_reset_time' =
                 IF tripped THEN clock + Sec(PROXY_503_PAUSE_DURATION)
                 ELSE circuit_breaker_reset_time
           /\ proxy_call' = [ proxy_call EXCEPT ![c] =
                 IF retry
                 THEN [ pc |-> "sleep", attempt |-> attempt,
                        wake |-> clock + Sec(Pow(PROXY_RETRY_DELAY, attempt + 1)),
                        last |-> "retrying" ]
                 ELSE IdleCall(IF resp = "ip" THEN "ok" ELSE "failed") ]

\* the call, were the reset of an elapsed breaker to keep the counter
ProxyCall_keeping_count(c, resp) ==
    /\ proxy_call[c].pc = "idle"
    /\ IF breaker_blocks(clock)
       THEN /\ proxy_call' = [ proxy_call EXCEPT ![c] = IdleCall("fast_fail") ]
            /\ UNCHANGED << consecutive_503_errors, circuit_breaker_active,
                            circuit_breaker_reset_time, net_requests,
                            streak_503 >>
       ELSE /\ proxy_request(c, 0, resp, consecutive_503_errors, FALSE)
            /\ streak_503' =
                 IF resp # "503" THEN 0
                 ELSE IF circuit_breaker_active THEN 1 ELSE streak_503 + 1
    /\ UNCHANGED << clock, fleetVars, appVars, faults >>

\* lines 2064-2082 and the first pass of the loop: a call is made; an open
\* breaker whose window has elapsed is reset, with the counter, on the way
ProxyCall(c, resp) ==
    /\ proxy_call[c].pc = "idle"
    /\ IF breaker_blocks(clock)
       THEN /\ proxy_call' = [ proxy_call EXCEPT ![c] = IdleCall("fast_fail") ]
            /\ UNCHANGED << consecutive_503_errors, circuit_breaker_active,
                            circuit_breaker_reset_time, net_requests,
                            streak_503 >>
       ELSE /\ proxy_request(c, 0, resp,
                  IF circuit_breaker_active THEN 0 ELSE consecutive_503_errors,
                  FALSE)
            /\ streak_503' =
                 IF resp # "503" THEN 0
                 ELSE IF circuit_breaker_active THEN 1 ELSE streak_503 + 1
    /\ UNCHANGED << clock, fleetVars, appVars, faults >>

\* lines 2133-2142: the backoff sleep is over and the loop's next pass runs
ProxyRetry(c, resp) ==
    /\ proxy_call[c].pc = "sleep"
    /\ clock >= proxy_call[c].wake
    /\ proxy_request(c, proxy_call[c].attempt + 1, resp,
                     consecutive_503_errors, circuit_breaker_active)
    /\ streak_503' = IF resp = "503" THEN streak_503 + 1 ELSE 0
    /\ UNCHANGED << clock, fleetVars, appVars, faults >>

\* time passes at the provider's scale
ProxyTick ==
    /\ clock + Sec(ProxyTickSeconds) <= MaxProxyTicks * Sec(ProxyTickSeconds)
    /\ clock' = clock + Sec(ProxyTickSeconds)
    /\ UNCHANGED << fleetVars, proxyVars, appVars, faults >>

InitProxy ==
    /\ clock = 0
    /\ inst = [ w \in Slots |-> FreeSlot ]
    /\ active_instances = << >>
    /\ used_ips = {}
    /\ session_info = InitialDisk
    /\ global_hourly_limit = FALSE
    /\ global_reactivation_time = None
    /\ hourly_limit_start_time = None
    /\ hourly_limit_check_task = "None"
    /\ watcher = 0
    /\ hhl_tasks = 0
    /\ browser_launch_semaphore = MAX_CONCURRENT_BROWSER_LAUNCHES
    /\ auto_unpause_active = FALSE
    /\ unpause_waiting = << >>
    /\ consecutive_503_errors = 0
    /\ circuit_breaker_active = FALSE
    /\ circuit_breaker_reset_time = None
    /\ proxy_call = [ c \in Callers |-> IdleCall("none") ]
    /\ net_requests = 0
    /\ streak_503 = 0
    /\ AppIdle
    /\ faults = 0

NextProxy ==
    \/ ProxyTick
    \/ \E c \in Callers, resp \in Responses : ProxyCall(c, resp)
    \/ \E c \in Callers, resp \in Responses : ProxyRetry(c, resp)

SpecProxy == InitProxy /\ [][NextProxy]_vars

-----------------------------------------------------------------------------
(* get_time_until_next_vote at sub-second resolution: one registered worker
   with a history drawn from the values the cycle can leave, read by the
   status API while the clock moves through a deadline *)

\* half-width, in clock ticks, of the window around a deadline
TimeWindow == 3

\* a vote so late in the hour that its cooldown ends after the hour does
LateVote == Hour - Minutes(VoteCooldownMinutes) + Minutes(1)

\* the deadlines of a history that began at time 0: the technical retry, the
\* cooldown, a cooldown retry begun at the technical retry's end, the hour,
\* the cooldown of the late vote
TimeDeadlines ==
    { Minutes(RETRY_DELAY_TECHNICAL), Minutes(VoteCooldownMinutes),
      Minutes(VoteCooldownMinutes - RETRY_DELAY_TECHNICAL + RETRY_DELAY_COOLDOWN),
      Hour, LateVote + Minutes(VoteCooldownMinutes) }

\* app.py lines 204 and 360: the status API asks worker w for its time
GetStatus(w) ==
    /\ w \in Values(active_instances)
    /\ LET t == TimeInfo(inst[w])
       IN  time_info' = [ at |-> clock,
                          seconds_remaining |-> t.seconds_remaining,
                          next_vote_time |-> t.next_vote_time,
                          status |-> t.status, retry_type |-> t.retry_type ]
    /\ UNCHANGED << clock, fleetVars, proxyVars, monitoring_active,
                    monitoring_task, browser_monitoring_active, faults >>

\* datetime.now() moves on by one clock tick, near a deadline
TimeTick ==
    /\ \E d \in TimeDeadlines : d - TimeWindow <= clock /\ clock < d + TimeWindow
    /\ clock' = clock + 1
    /\ UNCHANGED << fleetVars, proxyVars, appVars, faults >>

InitTime ==
    /\ clock \in { d - TimeWindow : d \in TimeDeadlines }
    /\ \E lvt \in { None, 0, LateVote },
          lav \in { None, 0, Minutes(VoteCooldownMinutes - RETRY_DELAY_TECHNICAL) },
          lft \in { "None", "technical", "ip_cooldown", "proxy_ip_mismatch" } :
         /\ lft \in { "technical", "proxy_ip_mismatch" } => lav # None
         /\ lvt <= clock /\ lav <= clock
         /\ inst = [ w \in {1} |->
                      [ NewInstance(1, 1) EXCEPT
                          !.pc = "sleep", !.wake = Hour,
                          !.last_vote_time = lvt, !.last_attempted_vote = lav,
                          !.last_failure_type = lft,
                          !.vote_count = IF lvt = None THEN 0 ELSE 1 ] ]
    /\ active_instances = << [ ip |-> 1, slot |-> 1 ] >>
    /\ used_ips = {1}
    /\ session_info = InitialDisk
    /\ \E ghl \in BOOLEAN :
         /\ global_hourly_limit = ghl
         /\ global_reactivation_time = IF ghl THEN Hour ELSE None
         /\ hourly_limit_start_time = IF ghl THEN 0 ELSE None
         /\ hourly_limit_check_task = IF ghl THEN "Task" ELSE "None"
         /\ watcher = IF ghl THEN 1 ELSE 0
    /\ hhl_tasks = 0
    /\ browser_launch_semaphore = MAX_CONCURRENT_BROWSER_LAUNCHES
    /\ auto_unpause_active = FALSE
    /\ unpause_waiting = << >>
    /\ consecutive_503_errors = 0
    /\ circuit_breaker_active = FALSE
    /\ circuit_breaker_reset_time = None
    /\ proxy_call = << >>
    /\ net_requests = 0
    /\ streak_503 = 0
    /\ AppIdle
    /\ faults = 0

NextTime ==
    \/ TimeTick
    \/ \E w \in {1} : GetStatus(w)

SpecTime == InitTime /\ [][NextTime]_vars

-----------------------------------------------------------------------------
(* Workers on the voting page: the page texts a probe or an attempt can meet *)

\* the banners of the fleet and further texts the probe can be positive on
AllBanners ==
    Banners \cup { "legacy_limit", "ip_mismatch", "limit_and_cooldown",
                   "limit_and_mismatch", "try_later" }

\* the outcomes of the fleet and further texts behind an unmoved counter
AllOutcomes ==
    Outcomes \cup { "legacy_limit", "limit_and_cooldown",
                    "limit_and_mismatch", "try_later", "unknown" }

\* a registered worker with an open session on the voting page
OnPage(w, pc) ==
    [ with_session(NewInstance(w, w)) EXCEPT !.browser_start_time = 0,
                                             !.status = "Ready", !.pc = pc ]

\* every worker registered, its page loaded: the first about to probe for
\* the banner or about to vote, the others about to vote
InitPage ==
    /\ clock = 0
    /\ \E first \in { "probe", "act" } :
         inst = [ w \in Slots |-> OnPage(w, IF w = 1 THEN first ELSE "act") ]
    /\ active_instances = [ w \in Slots |-> [ ip |-> w, slot |-> w ] ]
    /\ used_ips = Slots
    /\ session_info = [ i \in InstIds |-> NoSession ]
    /\ global_hourly_limit = FALSE
    /\ global_reactivation_time = None
    /\ hourly_limit_start_time = None
    /\ hourly_limit_check_task = "None"
    /\ watcher = 0
    /\ hhl_tasks = 0
    /\ browser_launch_semaphore = MAX_CONCURRENT_BROWSER_LAUNCHES
    /\ auto_unpause_active = FALSE
    /\ unpause_waiting = << >>
    /\ consecutive_503_errors = 0
    /\ circuit_breaker_active = FALSE
    /\ circuit_breaker_reset_time = None
    /\ proxy_call = << >>
    /\ net_requests = 0
    /\ streak_503 = 0
    /\ AppIdle
    /\ faults = 0

NextPage ==
    \/ Tick
    \/ \E w \in Slots : Wake(w)
    \/ \E w \in Slots : InitAcquire(w)
    \/ \E w \in Slots, res \in {"ok", "error", "timeout"} : InitDone(w, res)
    \/ \E w \in Slots, ok \in BOOLEAN : Nav(w, ok)
    \/ \E w \in Slots, banner \in AllBanners : Probe(w, banner)
    \/ \E w \in Slots : CloseGlobal(w)
    \/ \E w \in Slots, required \in BOOLEAN : Login(w, required)
    \/ \E w \in Slots, outcome \in AllOutcomes : Act(w, outcome)
    \/ HandleHourlyLimit
    \/ WatcherExpire

SpecPage == InitPage /\ [][NextPage]_vars

-----------------------------------------------------------------------------
(* attempt_vote with the counter reads spelled out: the count read before
   the click, the count read after it, and the count read after the retry
   click of the same cycle *)

\* what get_vote_count returns: None when the counter cannot be read
Counts == { None } \cup 0..MaxCount

\* lines 941-1090 and 1384-1425: the outcome of attempt_vote from its
\* reads; retry_final_count is None when no retry click was made or its
\* read failed; `rest` is how the examination of the page ends when the
\* reads settle nothing
count_outcome(initial_count, final_count, retry_final_count, rest) ==
    IF initial_count # None /\ final_count # None
    THEN IF final_count - initial_count = 1 THEN "verified"
         ELSE IF final_count - initial_count > 1 THEN "no_change"
         ELSE IF retry_final_count # None /\ retry_final_count > initial_count
              THEN "verified"
              ELSE rest
    ELSE rest

\* line 1801 to the sleep, for given reads
CountedAct(w, initial_count, final_count, retry_final_count, rest) ==
    /\ rest # "verified"
    /\ rest = "unverified" => (initial_count = None \/ final_count = None)
    /\ (initial_count = None \/ final_count = None
          \/ final_count - initial_count >= 1) => retry_final_count = None
    /\ Act(w, count_outcome(initial_count, final_count, retry_final_count,
                             rest))

NextCount ==
    \/ Tick
    \/ \E w \in Slots : Wake(w)
    \/ \E w \in Slots : InitAcquire(w)
    \/ \E w \in Slots, res \in {"ok", "error", "timeout"} : InitDone(w, res)
    \/ \E w \in Slots, ok \in BOOLEAN : Nav(w, ok)
    \/ \E w \in Slots, banner \in AllBanners : Probe(w, banner)
    \/ \E w \in Slots : CloseGlobal(w)
    \/ \E w \in Slots, required \in BOOLEAN : Login(w, required)
    \/ \E w \in Slots, i \in Counts, f \in Counts, r \in Counts,
          rest \in AllOutcomes : CountedAct(w, i, f, r, rest)
    \/ HandleHourlyLimit
    \/ WatcherExpire

SpecCount == InitPage /\ [][NextCount]_vars

-----------------------------------------------------------------------------
(* The fleet as the control surface of app.py runs it: start_monitoring, the
   monitoring loop that restores saved sessions, the browser monitor it
   starts, and stop_monitoring *)

\* clock steps of a run started through the control surface
RunTicks == 4

\* the run starts two clock steps after the votes its disk records
RunStart == 2 * TickStep
RunEnd == RunStart + RunTicks * TickStep

\* what save_session_data (lines 1584-1591) left for a worker that voted once
VotedSession(ip, t) == [ present |-> TRUE, proxy_ip |-> ip,
                         last_vote_time |-> t, vote_count |-> 1 ]

\* the session directory of an earlier run: instance 1 voted at time 0,
\* instance 2 logged in and did not vote
SavedDisk ==
    [ i \in InstIds |-> IF i = 1 THEN VotedSession(1, 0)
                        ELSE IF i = 2 THEN LoginSession(2) ELSE NoSession ]

\* app.py start_monitoring, lines 133-268, with the first segment of
\* monitoring_loop (lines 172-177); the model follows one start
StartMonitoring ==
    /\ ~monitoring_active
    /\ monitoring_task = "None"
    /\ monitoring_active' = TRUE
    /\ monitoring_task' = "Task"
    /\ browser_monitoring_active' = TRUE
    /\ UNCHANGED << clock, fleetVars, proxyVars, time_info, faults >>

\* monitoring_loop, lines 181-246: the scan launches one ready session
MonitorRestore(w, id) ==
    /\ monitoring_active
    /\ monitoring_task = "Task"
    /\ LaunchRestore(w, id)

\* the test of _browser_monitoring_loop, lines 2490-2517
should_close(r) ==
    \/ r.status \in { "Error", "Cycle Error - Recovering" }
    \/ /\ r.status \notin { "Error", "Cycle Error - Recovering" }
       /\ r.browser /\ r.browser_start_time # None
       /\ clock - r.browser_start_time > Sec(300)
    \/ /\ r.status \notin { "Error", "Cycle Error - Recovering" }
       /\ ~(r.browser /\ r.browser_start_time # None)
       /\ global_hourly_limit /\ r.browser
       /\ hourly_limit_start_time # None
          => clock - hourly_limit_start_time > Sec(60)

\* _browser_monitoring_loop, lines 2484-2541: the monitor closes the session
\* of one registered instance
BrowserMonitorClose(w) ==
    /\ browser_monitoring_active
    /\ w \in Values(active_instances)
    /\ should_close(inst[w]) /\ inst[w].browser
    /\ inst' = [ inst EXCEPT ![w] = close_browser(@) ]
    /\ UNCHANGED << clock, active_instances, used_ips, session_info,
                    throttleVars, hhl_tasks, browser_launch_semaphore,
                    auto_unpause_active, unpause_waiting, proxyVars, appVars,
                    faults >>

\* app.py stop_monitoring, lines 286-313
StopMonitoring ==
    /\ monitoring_task = "Task"
    /\ monitoring_active' = FALSE
    /\ monitoring_task' = "Cancelled"
    /\ UNCHANGED << clock, fleetVars, proxyVars, browser_monitoring_active,
                    time_info, faults >>

\* the restore the loop was awaiting when it was cancelled: before
\* registration the object is dropped (the finally of lines 514-516 gives the
\* permit back), after it the instance stays registered without a cycle task
abandoned(r) ==
    IF r.pc = "r_init" THEN FreeSlot
    ELSE IF r.pc = "r_nav" THEN [ r EXCEPT !.pc = "idle" ]
    ELSE r

\* monitoring_loop, lines 259-265: the cancellation arrives at the loop's
\* await and its finally stops the browser monitor
MonitoringLoopCancelled ==
    /\ monitoring_task = "Cancelled"
    /\ monitoring_task' = "Done"
    /\ browser_monitoring_active' = FALSE
    /\ inst' = [ w \in DOMAIN inst |-> abandoned(inst[w]) ]
    /\ browser_launch_semaphore' = browser_launch_semaphore +
         Cardinality({ w \in DOMAIN inst :
                         inst[w].pc = "r_init" /\ inst[w].holds_permit })
    /\ UNCHANGED << clock, active_instances, used_ips, session_info,
                    throttleVars, hhl_tasks, auto_unpause_active,
                    unpause_waiting, proxyVars, monitoring_active, time_info,
                    faults >>

\* run_voting_cycle, lines 1850-1870: an exception leaves the loop body at
\* attempt_vote (line 1801) and reaches the handler around the loop
CycleError(w) ==
    /\ inject(TRUE)
    /\ inst[w].pc = "act"
    /\ inst' = [ inst EXCEPT ![w] =
         [ close_browser([ @ EXCEPT !.status = "Cycle Error - Recovering" ])
             EXCEPT !.pc = "error_sleep", !.wake = clock + Sec(60) ] ]
    /\ UNCHANGED << clock, active_instances, used_ips, session_info,
                    throttleVars, hhl_tasks, browser_launch_semaphore,
                    auto_unpause_active, unpause_waiting, proxyVars, appVars >>

\* line 1870 and the end of the function: the sleep of the handler is over
CycleErrorEnd(w) ==
    /\ inst[w].pc = "error_sleep"
    /\ clock >= inst[w].wake
    /\ inst' = [ inst EXCEPT ![w] = [ @ EXCEPT !.pc = "done", !.wake = None ] ]
    /\ UNCHANGED << clock, active_instances, used_ips, session_info,
                    throttleVars, hhl_tasks, browser_launch_semaphore,
                    auto_unpause_active, unpause_waiting, proxyVars, appVars,
                    faults >>

\* the steps of one worker's launch and cycle. Resume(w) is not among them:
\* lines 1641 and 2418 are the only ones that open a gate after construction,
\* the first runs before the worker waits and the second belongs to the
\* monitor that app.py never starts, so a worker at line 1645 stays there
CycleStep(w) ==
    \/ CycleStart(w) \/ Wake(w) \/ InitAcquire(w)
    \/ CloseGlobal(w)
    \/ \E res \in {"ok", "error", "timeout"} : InitDone(w, res)
    \/ \E ok \in BOOLEAN : Nav(w, ok)
    \/ \E banner \in Banners : Probe(w, banner)
    \/ \E required \in BOOLEAN : Login(w, required)
    \/ \E outcome \in Outcomes : Act(w, outcome)
    \/ \E ok \in BOOLEAN, login \in BOOLEAN : RestoreNav(w, ok, login)

\* the steps of a started run that take seconds
RunPrompt ==
    \/ Prompt
    \/ MonitoringLoopCancelled
    \/ \E w \in Slots :
         \/ BrowserMonitorClose(w)
         \/ CycleErrorEnd(w)
         \/ \E id \in InstIds : MonitorRestore(w, id)

RunTick ==
    /\ ~ENABLED RunPrompt
    /\ clock + TickStep <= RunEnd
    /\ clock' = clock + TickStep
    /\ UNCHANGED << fleetVars, proxyVars, appVars, faults >>

InitRun ==
    /\ clock = RunStart
    /\ inst = [ w \in Slots |-> FreeSlot ]
    /\ active_instances = << >>
    /\ used_ips = {}
    /\ session_info = SavedDisk
    /\ global_hourly_limit = FALSE
    /\ global_reactivation_time = None
    /\ hourly_limit_start_time = None
    /\ hourly_limit_check_task = "None"
    /\ watcher = 0
    /\ hhl_tasks = 0
    /\ browser_launch_semaphore = MAX_CONCURRENT_BROWSER_LAUNCHES
    /\ auto_unpause_active = FALSE
    /\ unpause_waiting = << >>
    /\ consecutive_503_errors = 0
    /\ circuit_breaker_active = FALSE
    /\ circuit_breaker_reset_time = None
    /\ proxy_call = << >>
    /\ net_requests = 0
    /\ streak_503 = 0
    /\ AppIdle
    /\ faults = 0

NextRun ==
    \/ StartMonitoring
    \/ RunTick
    \/ \E w \in Slots, id \in InstIds : MonitorRestore(w, id)
    \/ \E w \in Slots : CycleStep(w)
    \/ \E w \in Slots : BrowserMonitorClose(w)
    \/ HandleHourlyLimit
    \/ WatcherExpire

\* every task the run started is scheduled again and again
RunFairness ==
    /\ WF_vars(RunTick)
    /\ WF_vars(HandleHourlyLimit)
    /\ WF_vars(WatcherExpire)
    /\ WF_vars(\E w \in Slots, id \in InstIds : MonitorRestore(w, id))
    /\ \A w \in Slots : WF_vars(CycleStep(w))
    /\ \A w \in Slots : WF_vars(BrowserMonitorClose(w))

SpecRun == InitRun /\ [][NextRun]_vars /\ RunFairness

NextOps ==
    \/ NextRun
    \/ StopMonitoring
    \/ MonitoringLoopCancelled
    \/ \E w \in Slots : CycleError(w)
    \/ \E w \in Slots : CycleErrorEnd(w)

SpecOps == InitRun /\ [][NextOps]_vars

-----------------------------------------------------------------------------
(* close_browser step by step. Each of its four steps tests a reference,
   awaits the close of the object under a timeout and clears the reference
   in a finally clause; while a call is suspended in a step the other tasks
   run. The scenario: workers released at the gate with a session that has
   been open for more than five minutes, the browser monitor running *)

\* lines 1930, 1945, 1959, 1973: the references in the order they are closed
TeardownSteps == << "page", "context", "browser", "playwright" >>

\* what the awaited close of a step did: it completed, it ran into the
\* timeout of wait_for, or it raised
TeardownOutcomes == { "closed", "timeout", "raised" }

\* whether reference x of instance record r is set
holds(r, x) ==
    CASE x = "page" -> r.page
      [] x = "context" -> r.context
      [] x = "browser" -> r.browser
      [] x = "playwright" -> r.playwright

\* self.x = v
set_reference(r, x, v) ==
    CASE x = "page" -> [ r EXCEPT !.page = v ]
      [] x = "context" -> [ r EXCEPT !.context = v ]
      [] x = "browser" -> [ r EXCEPT !.browser = v ]
      [] x = "playwright" -> [ r EXCEPT !.playwright = v ]

\* a step of close_browser once its await is over: the except clauses only
\* log, the finally clause clears the reference (lines 1931-1943, 1946-1957,
\* 1960-1971, 1974-1984)
teardown_finally(r, x, o) == set_reference(r, x, FALSE)

\* the first step from the k-th on whose reference is set, 0 when none is:
\* the tests `if self.page:` ... `if self.playwright:`
next_teardown(r, k) ==
    LET S == { j \in k..Len(TeardownSteps) : holds(r, TeardownSteps[j]) }
    IN  IF S = {} THEN 0 ELSE CHOOSE j \in S : \A i \in S : j <= i

\* lines 1987-1990, the end of close_browser
tracking_reset(r) ==
    [ r EXCEPT !.browser_start_time = None,
               !.status = "Cooldown - Browser Closed" ]

\* task c calls close_browser: it runs up to the first await, or to the end
\* when no reference is set
close_begin(r, c) ==
    LET k == next_teardown(r, 1)
    IN  IF k = 0 THEN tracking_reset(r) ELSE [ r EXCEPT !.closing[c] = k ]

\* the call of task c goes on after the await of its step ended with o: up
\* to the next await, or to the end
close_resume(r, c, o) ==
    LET k == r.closing[c]
        q == teardown_finally(r, TeardownSteps[k], o)
        n == next_teardown(q, k + 1)
    IN  IF n = 0 THEN [ tracking_reset(q) EXCEPT !.closing[c] = 0 ]
        ELSE [ q EXCEPT !.closing[c] = n ]

\* the awaits of _do_init, in order (lines 399, 422, 442-449, 454)
EstablishSteps == << "playwright", "browser", "context", "page" >>

establish_pc(k) == "init_" \o EstablishSteps[k]

\* _initialize_browser after its close_browser returned (lines 484-486),
\* then the failure branch of run_voting_cycle
establish_failed(r) == init_failed([ r EXCEPT !.status = "Error" ])

\* run_voting_cycle lines 1645-1652: past the gate, the worker establishes a
\* session when a reference is missing and navigates otherwise
GatePassed(w) ==
    /\ inst[w].pc = "wait"
    /\ ~inst[w].is_paused /\ inst[w].pause_event
    /\ inst' = [ inst EXCEPT ![w].pc =
                   IF ~inst[w].browser \/ ~inst[w].page
                   THEN establish_pc(1) ELSE "nav" ]
    /\ UNCHANGED << clock, active_instances, used_ips, session_info,
                    throttleVars, hhl_tasks, browser_launch_semaphore,
                    auto_unpause_active, unpause_waiting, proxyVars, appVars,
                    faults >>

\* one await of _do_init is over: the reference is set and the next call is
\* made on it, or the step raised or the timeout of the establishment struck
\* and _initialize_browser calls close_browser (lines 477, 484)
EstablishStep(w, ok) ==
    \E k \in 1..Len(EstablishSteps) :
      /\ inst[w].pc = establish_pc(k)
      /\ (ok /\ k > 1) => holds(inst[w], EstablishSteps[k - 1])
      /\ inst' = [ inst EXCEPT ![w] =
           IF ok
           THEN LET q == set_reference(@, EstablishSteps[k], TRUE)
                IN  IF k = Len(EstablishSteps)
                    THEN [ q EXCEPT !.status = "Ready", !.pc = "nav" ]
                    ELSE [ q EXCEPT !.pc = establish_pc(k + 1),
                                    !.browser_start_time =
                                       IF EstablishSteps[k] = "browser"
                                       THEN clock ELSE @ ]
           ELSE LET q == close_begin(@, "cycle")
                IN  IF q.closing["cycle"] = 0 THEN establish_failed(q)
                    ELSE [ q EXCEPT !.pc = "close" ] ]
      /\ UNCHANGED << clock, active_instances, used_ips, session_info,
                      throttleVars, hhl_tasks, browser_launch_semaphore,
                      auto_unpause_active, unpause_waiting, proxyVars,
                      appVars, faults >>

\* the worker's own close_browser call goes on after an await
CycleCloseStep(w, o) ==
    /\ inst[w].pc = "close"
    /\ inst[w].closing["cycle"] > 0
    /\ inst' = [ inst EXCEPT ![w] =
           LET q == close_resume(@, "cycle", o)
           IN  IF q.closing["cycle"] = 0 THEN establish_failed(q) ELSE q ]
    /\ UNCHANGED << clock, active_instances, used_ips, session_info,
                    throttleVars, hhl_tasks, browser_launch_semaphore,
                    auto_unpause_active, unpause_waiting, proxyVars, appVars,
                    faults >>

\* _browser_monitoring_loop, lines 2489-2524: the monitor, which awaits one
\* close_browser at a time, calls it on an instance that meets its test
MonitorCloseBegin(w) ==
    /\ browser_monitoring_active
    /\ w \in Values(active_instances)
    /\ \A v \in Slots : inst[v].closing["monitor"] = 0
    /\ should_close(inst[w]) /\ inst[w].browser
    /\ inst' = [ inst EXCEPT ![w] = close_begin(@, "monitor") ]
    /\ UNCHANGED << clock, active_instances, used_ips, session_info,
                    throttleVars, hhl_tasks, browser_launch_semaphore,
                    auto_unpause_active, unpause_waiting, proxyVars, appVars,
                    faults >>

\* the monitor's close_browser call goes on after an await
MonitorCloseStep(w, o) ==
    /\ inst[w].closing["monitor"] > 0
    /\ inst' = [ inst EXCEPT ![w] = close_resume(@, "monitor", o) ]
    /\ UNCHANGED << clock, active_instances, used_ips, session_info,
                    throttleVars, hhl_tasks, browser_launch_semaphore,
                    auto_unpause_active, unpause_waiting, proxyVars, appVars,
                    faults >>

\* every worker registered and released at its gate, its session opened
\* more than five minutes ago; the monitors of app.py started
InitClose ==
    /\ clock = Minutes(5) + 1
    /\ inst = [ w \in Slots |->
                  [ OnPage(w, "wait") EXCEPT
                      !.status = "Resumed - Ready to Vote" ] ]
    /\ active_instances = [ w \in Slots |-> [ ip |-> w, slot |-> w ] ]
    /\ used_ips = Slots
    /\ session_info = [ i \in InstIds |-> NoSession ]
    /\ global_hourly_limit = FALSE
    /\ global_reactivation_time = None
    /\ hourly_limit_start_time = None
    /\ hourly_limit_check_task = "None"
    /\ watcher = 0
    /\ hhl_tasks = 0
    /\ browser_launch_semaphore = MAX_CONCURRENT_BROWSER_LAUNCHES
    /\ auto_unpause_active = FALSE
    /\ unpause_waiting = << >>
    /\ consecutive_503_errors = 0
    /\ circuit_breaker_active = FALSE
    /\ circuit_breaker_reset_time = None
    /\ proxy_call = << >>
    /\ net_requests = 0
    /\ streak_503 = 0
    /\ monitoring_active = TRUE
    /\ monitoring_task = "Task"
    /\ browser_monitoring_active = TRUE
    /\ time_info = NoTimeInfo
    /\ faults = 0

NextClose ==
    \/ \E w \in Slots : GatePassed(w)
    \/ \E w \in Slots, ok \in BOOLEAN : EstablishStep(w, ok)
    \/ \E w \in Slots, o \in TeardownOutcomes : CycleCloseStep(w, o)
    \/ \E w \in Slots : MonitorCloseBegin(w)
    \/ \E w \in Slots, o \in TeardownOutcomes : MonitorCloseStep(w, o)

SpecClose == InitClose /\ [][NextClose]_vars

-----------------------------------------------------------------------------
(* The browser monitor reclaiming sessions in mid-cycle: workers on the
   voting page with a session that was opened more than five minutes ago
   (a worker resumed at its gate goes on with the session it held), the
   browser monitor of app.py running next to them *)

\* the positions of a cycle between establishment and the end of the attempt
MidCycle == { "nav", "probe", "login", "act" }

\* every position a cycle can be at when the monitor comes by
InitReclaim ==
    /\ clock = TickStep
    /\ \E first \in MidCycle :
         inst = [ w \in Slots |-> OnPage(w, IF w = 1 THEN first ELSE "nav") ]
    /\ active_instances = [ w \in Slots |-> [ ip |-> w, slot |-> w ] ]
    /\ used_ips = Slots
    /\ session_info = [ i \in InstIds |-> NoSession ]
    /\ global_hourly_limit = FALSE
    /\ global_reactivation_time = None
    /\ hourly_limit_start_time = None
    /\ hourly_limit_check_task = "None"
    /\ watcher = 0
    /\ hhl_tasks = 0
    /\ browser_launch_semaphore = MAX_CONCURRENT_BROWSER_LAUNCHES
    /\ auto_unpause_active = FALSE
    /\ unpause_waiting = << >>
    /\ consecutive_503_errors = 0
    /\ circuit_breaker_active = FALSE
    /\ circuit_breaker_reset_time = None
    /\ proxy_call = << >>
    /\ net_requests = 0
    /\ streak_503 = 0
    /\ monitoring_active = TRUE
    /\ monitoring_task = "Task"
    /\ browser_monitoring_active = TRUE
    /\ time_info = NoTimeInfo
    /\ faults = 0

\* the steps of worker w's task. Resume(w) is not among them: nothing here
\* opens the gate of a worker that waits at line 1645
ReclaimCycleStep(w) ==
    \/ Wake(w) \/ InitAcquire(w)
    \/ CloseGlobal(w)
    \/ \E res \in {"ok", "error", "timeout"} : InitDone(w, res)
    \/ \E ok \in BOOLEAN : Nav(w, ok)
    \/ \E banner \in Banners : Probe(w, banner)
    \/ \E required \in BOOLEAN : Login(w, required)
    \/ \E outcome \in Outcomes \cup { "no_page" } : Act(w, outcome)

ReclaimPrompt ==
    \/ HandleHourlyLimit
    \/ \E w \in Slots : ReclaimCycleStep(w)

ReclaimTick ==
    /\ ~ENABLED ReclaimPrompt
    /\ clock + TickStep <= RunEnd
    /\ clock' = clock + TickStep
    /\ UNCHANGED << fleetVars, proxyVars, appVars, faults >>

NextReclaim ==
    \/ ReclaimTick
    \/ \E w \in Slots : ReclaimCycleStep(w)
    \/ \E w \in Slots : BrowserMonitorClose(w)
    \/ HandleHourlyLimit
    \/ WatcherExpire

\* every task is scheduled again and again
ReclaimFairness ==
    /\ WF_vars(ReclaimTick)
    /\ WF_vars(HandleHourlyLimit)
    /\ WF_vars(WatcherExpire)
    /\ \A w \in Slots : WF_vars(ReclaimCycleStep(w))

SpecReclaim == InitReclaim /\ [][NextReclaim]_vars /\ ReclaimFairness

-----------------------------------------------------------------------------
(* Properties *)

\* C1: no two live workers (cycle task running, or registered in
\* active_instances) are bound to the same proxy IP, whatever the
\* interleaving of launch_new_instance and launch_instance_from_saved_session.
C1_DistinctIdentities ==
    \A v, w \in DOMAIN inst :
        (v # w /\ Live(v) /\ Live(w)) => inst[v].proxy_ip # inst[w].proxy_ip

\* C2: while global_hourly_limit is true no worker enters attempt_vote before
\* global_reactivation_time (the earlier of the two deadlines of the claim),
\* workers launched during the throttle included.
C2_NoAttemptUnderThrottle ==
    [][ \A w \in DOMAIN inst :
          ( /\ inst[w].pc # "act"
            /\ inst'[w].pc = "act"
            /\ global_hourly_limit' )
          => clock' >= global_reactivation_time' ]_vars

\* C3: a handle_hourly_limit task that runs while global_hourly_limit is
\* already true changes neither the flag, the reactivation time, the start
\* time, the watcher handle or the number of watcher tasks, nor the pause
\* state of any worker.
C3_HandlerIdempotent ==
    [][ (hhl_tasks' < hhl_tasks /\ global_hourly_limit)
        => /\ UNCHANGED throttleVars
           /\ \A w \in DOMAIN inst :
                /\ inst'[w].is_paused = inst[w].is_paused
                /\ inst'[w].pause_event = inst[w].pause_event ]_vars

\* a handler task is about to run with the flag set and a registered worker
\* that is not paused
C3_Witness ==
    /\ global_hourly_limit
    /\ hhl_tasks > 0
    /\ \E w \in Values(active_instances) : ~inst[w].is_paused

\* C4: the step that flips global_hourly_limit from false to true leaves
\* every registered worker that is neither excluded nor waiting for login
\* paused with its gate closed, and sets global_reactivation_time to the top
\* of the next hour.
C4_AtomicPause ==
    [][ (~global_hourly_limit /\ global_hourly_limit')
        => /\ \A w \in Values(active_instances) :
                (~inst[w].excluded_from_cycles /\ ~inst[w].waiting_for_login)
                => (inst'[w].is_paused /\ ~inst'[w].pause_event)
           /\ global_reactivation_time' > clock
           /\ global_reactivation_time' - clock <= Hour
           /\ global_reactivation_time' % Hour = 0 ]_vars

\* the handler has just set the flag, off the hour, and paused a worker of a
\* fleet of two
C4_Witness ==
    /\ global_hourly_limit
    /\ hourly_limit_start_time = clock
    /\ clock % Hour # 0
    /\ hhl_tasks = 0
    /\ Cardinality(Values(active_instances)) = 2
    /\ \E w \in Values(active_instances) :
         inst[w].status = "Paused - Hourly Limit"

\* C5: at most one _check_hourly_limit_expiry task is outstanding, and one is
\* outstanding whenever global_hourly_limit is true.
C5_WatcherOutstanding ==
    /\ watcher <= 1
    /\ global_hourly_limit => watcher = 1

\* C6: a worker the monitor's scan found eligible and left for the next tick
\* is still paused when that tick begins.
C6_OtherStillPaused ==
    [][ AutoUnpauseTick
        => \A i \in DOMAIN unpause_waiting :
             inst[unpause_waiting[i]].is_paused ]_vars

\* C7: the fifth consecutive failed session establishment of the cycle
\* leaves the worker paused and waiting at its gate, with its counter at 0.
C7_HardPause ==
    [][ \A w \in DOMAIN inst :
          ( /\ inst[w].pc = "init"
            /\ inst[w].consecutive_init_failures = InitFailureCap - 1
            /\ inst'[w].consecutive_init_failures = 0
            /\ ~inst'[w].browser )
          => (inst'[w].is_paused /\ inst'[w].pc = "wait") ]_vars

\* C8: at most MAX_CONCURRENT_BROWSER_LAUNCHES workers hold the launch gate.
C8_GateBound ==
    Cardinality({ w \in DOMAIN inst : inst[w].holds_permit })
        <= MAX_CONCURRENT_BROWSER_LAUNCHES

\* the gate is full and one more worker is waiting for it
C8_Witness ==
    /\ Cardinality({ w \in DOMAIN inst : inst[w].holds_permit })
         = MAX_CONCURRENT_BROWSER_LAUNCHES
    /\ \E w \in DOMAIN inst : inst[w].pc = "init" /\ ~inst[w].holds_permit

\* a get_proxy_ip call begins
CallStep == \E c \in Callers, resp \in Responses : ProxyCall(c, resp)

\* C9: the third 503 in a row opens the breaker for
\* PROXY_503_PAUSE_DURATION seconds; a call that begins while the breaker is
\* open and before circuit_breaker_reset_time sends no request and changes
\* nothing of the breaker; a call that begins at or after
\* circuit_breaker_reset_time closes the breaker, restarts the counter and
\* sends a request.
C9_CircuitBreaker ==
    [][ /\ ( /\ streak_503' # streak_503
             /\ streak_503' >= PROXY_503_CIRCUIT_BREAKER_THRESHOLD )
           => /\ circuit_breaker_active'
              /\ circuit_breaker_reset_time' =
                   clock + Sec(PROXY_503_PAUSE_DURATION)
        /\ ( /\ CallStep
             /\ circuit_breaker_active
             /\ clock < circuit_breaker_reset_time )
           => /\ net_requests' = net_requests
              /\ UNCHANGED << circuit_breaker_active, consecutive_503_errors,
                              circuit_breaker_reset_time >>
        /\ ( /\ CallStep
             /\ circuit_breaker_active
             /\ clock >= circuit_breaker_reset_time )
           => /\ net_requests' = net_requests + 1
              /\ ~circuit_breaker_active'
              /\ consecutive_503_errors' = streak_503'
              /\ consecutive_503_errors' <= 1 ]_vars

\* the breaker opened, one caller's call failed fast, and a later call has
\* closed the breaker again
C9_Witness ==
    /\ ~circuit_breaker_active
    /\ circuit_breaker_reset_time # None
    /\ clock >= circuit_breaker_reset_time
    /\ \E c \in Callers : proxy_call[c].last = "fast_fail"

\* C10: an excluded worker stays excluded and paused, with its gate closed
\* and no session, and is never at session establishment, navigation, the
\* probe, the login check or attempt_vote.
C10_ExcludedSticky ==
    [][ \A w \in DOMAIN inst :
          inst[w].excluded_from_cycles
          => /\ inst'[w].excluded_from_cycles
             /\ inst'[w].is_paused
             /\ ~inst'[w].pause_event
             /\ ~inst'[w].browser
             /\ inst'[w].pc \in {"sleep"} ]_vars

\* an excluded worker came back to the top of its loop and sleeps its hour,
\* with the monitor running
C10_Witness ==
    /\ auto_unpause_active
    /\ \E w \in Values(active_instances) :
         /\ inst[w].excluded_from_cycles
         /\ inst[w].pc = "sleep"
         /\ inst[w].wake >= clock + Sec(ExcludedSleepSeconds)

C16_DistinctIds ==
    \A v, w \in DOMAIN inst :
        (v # w /\ Live(v) /\ Live(w))
        => inst[v].instance_id # inst[w].instance_id

\* C17: for every worker, is_paused is true exactly when its pause_event is
\* not set.
C17_PauseGateConsistent ==
    \A w \in DOMAIN inst : inst[w].is_paused <=> ~inst[w].pause_event

\* one worker has been released while another is still paused by the handler
C17_Witness ==
    /\ \E w \in Values(active_instances) :
         inst[w].status = "Resumed - Ready to Vote" /\ ~inst[w].is_paused
    /\ \E w \in Values(active_instances) :
         inst[w].status = "Paused - Hourly Limit" /\ inst[w].is_paused

\* C18: the worker's own step never clears a pause that came from the global
\* throttle: the worker that paused itself on the global banner is still
\* paused when that step ends, and a worker the handler paused is still
\* paused after its sleep ends.
C18_GlobalPauseKept ==
    [][ \A w \in DOMAIN inst :
          /\ CloseGlobal(w) => inst'[w].is_paused
          /\ ( /\ Wake(w)
               /\ inst[w].is_paused
               /\ inst[w].status = "Paused - Hourly Limit" )
             => inst'[w].is_paused ]_vars

\* C14: the seconds_remaining that get_time_until_next_vote returns is never
\* negative, and it is 0 exactly when the time of the call is at or past the
\* deadline returned with it as next_vote_time.
C14_ZeroAtDeadline ==
    time_info.at # None
    => /\ time_info.seconds_remaining >= 0
       /\ time_info.next_vote_time # None
          => ( time_info.seconds_remaining = 0
               <=> time_info.at >= time_info.next_vote_time )

\* C11: once stop_monitoring has been carried out (the flag is down and the
\* cancellation of the monitoring task has been delivered), no worker enters
\* attempt_vote any more, because every cycle task was cancelled.
C11_StopEndsVoting ==
    [][ (~monitoring_active /\ monitoring_task = "Done")
          => \A w \in Slots : inst[w].pc # "act" => inst'[w].pc # "act" ]_vars

\* C12: an exception that reaches the handler around the cycle loop closes the
\* session and starts a 60 s wait, and when the wait is over the task is again
\* at a step of the cycle: it has not ended.
C12_ErrorKeepsTask ==
    [][ \A w \in Slots :
          /\ CycleError(w) => /\ ~inst'[w].browser
                              /\ inst'[w].wake = clock + Sec(60)
          /\ CycleErrorEnd(w) => inst'[w].pc \in CyclePcs ]_vars

\* C13: the worker that launch_instance_from_saved_session creates from a
\* session saved by save_session_data has the vote_count and the
\* last_vote_time that the session records.
C13_RestoreRoundTrip ==
    [][ \A w \in Slots, id \in InstIds :
          MonitorRestore(w, id)
            => /\ inst'[w].vote_count = session_info[id].vote_count
               /\ inst'[w].last_vote_time = session_info[id].last_vote_time ]_vars

\* C20: the global throttle flag is never cleared before the clock has
\* reached global_reactivation_time, and once the clock has reached it the
\* flag is eventually cleared, in every episode of a fairly scheduled run.
C20_ThrottleExpires ==
    /\ [][ (global_hourly_limit /\ ~global_hourly_limit')
            => /\ global_reactivation_time # None
               /\ clock >= global_reactivation_time ]_vars
    /\ (global_hourly_limit /\ global_reactivation_time # None
          /\ clock >= global_reactivation_time) ~> ~global_hourly_limit

\* an episode declared in the second hour of the run has expired at its
\* deadline and its watcher has ended
C20_Witness ==
    /\ ~global_hourly_limit
    /\ global_reactivation_time = None
    /\ hourly_limit_check_task = "None"
    /\ watcher = 0
    /\ clock = 2 * Hour
    /\ \E w \in Values(active_instances) :
         /\ inst[w].status = "Paused - Hourly Limit"
         /\ inst[w].last_attempted_vote # None
         /\ inst[w].last_attempted_vote >= Hour

\* C19: in a run started by start_monitoring, a registered worker that the
\* global throttle paused, that is neither excluded nor waiting for login and
\* whose time to the next vote is zero once the throttle has expired, is
\* eventually released: is_paused false and the gate open.
C19_EventuallyReleased ==
    \A w \in Slots :
      ( /\ monitoring_active
        /\ w \in Values(active_instances)
        /\ inst[w].is_paused
        /\ inst[w].status = "Paused - Hourly Limit"
        /\ ~inst[w].excluded_from_cycles
        /\ ~inst[w].waiting_for_login
        /\ ~global_hourly_limit
        /\ TimeInfo(inst[w]).seconds_remaining = 0 )
      ~> (~inst[w].is_paused /\ inst[w].pause_event)

\* C26: a worker commits to handle_hourly_limit exactly when the page text it
\* classified contains a pattern of global scope, at the banner probe and
\* after an attempt alike; a text of instance scope only, of no known pattern,
\* or one that could not be read schedules no handler, raises no global
\* throttle and leaves every other worker as it is.
C26_GlobalScopeOnly ==
    [][ \A w \in Slots :
          /\ \A banner \in AllBanners :
               Probe(w, banner)
                 => /\ inst'[w].pc = "close_global"
                       <=> /\ banner \notin { "none", "error" }
                           /\ any_pattern(GLOBAL_HOURLY_LIMIT_PATTERNS,
                                          PageText(banner))
                    /\ hhl_tasks' = hhl_tasks
                    /\ global_hourly_limit' = global_hourly_limit
                    /\ \A v \in Slots \ {w} : inst'[v] = inst[v]
          /\ CloseGlobal(w) => hhl_tasks' = hhl_tasks + 1
          /\ \A outcome \in AllOutcomes :
               Act(w, outcome)
                 => /\ hhl_tasks' = hhl_tasks + 1
                       <=> /\ outcome \notin PlainOutcomes
                           /\ any_pattern(GLOBAL_HOURLY_LIMIT_PATTERNS,
                                          PageText(outcome))
                    /\ hhl_tasks' # hhl_tasks + 1 => hhl_tasks' = hhl_tasks
                    /\ global_hourly_limit' = global_hourly_limit
                    /\ \A v \in Slots \ {w} : inst'[v] = inst[v]
          /\ (~global_hourly_limit /\ global_hourly_limit')
               => hhl_tasks' = hhl_tasks - 1 ]_vars

\* an attempt has ended on a text of instance scope: the worker sleeps out
\* its cooldown, no handler was scheduled, no throttle is up and no worker
\* is paused
C26_Witness ==
    /\ clock = 0
    /\ ~global_hourly_limit
    /\ hhl_tasks = 0
    /\ hourly_limit_check_task = "None"
    /\ \E w \in Slots :
         /\ inst[w].pc = "sleep"
         /\ inst[w].status = "Cooldown"
         /\ inst[w].last_failure_type = "ip_cooldown"
         /\ inst[w].last_attempted_vote = clock
    /\ \A v \in Slots : ~inst[v].is_paused

\* C27: when the counter did not move and the page text contains "someone
\* has already voted out of this ip", the attempt records the failure type
\* proxy_ip_mismatch and the worker next sleeps RETRY_DELAY_TECHNICAL minutes.
C27_IdentityMismatch ==
    [][ \A w \in Slots, outcome \in AllOutcomes \ PlainOutcomes :
          ( /\ Act(w, outcome)
            /\ Infix(<< "someone", "has", "already", "voted", "out", "of",
                        "this", "ip" >>, PageText(outcome)) )
            => /\ inst'[w].last_failure_type = "proxy_ip_mismatch"
               /\ inst'[w].wake = clock + Minutes(RETRY_DELAY_TECHNICAL) ]_vars

\* C30: after every attempt_vote that succeeds, by the verified path or by the
\* unverified text-only path, the worker's last_failure_type is null
C30_SuccessClearsFailure ==
    [][ \A w \in Slots, outcome \in {"verified", "unverified"} :
          Act(w, outcome) => inst'[w].last_failure_type = "None" ]_vars

\* C25: a worker that meets an instance-scope or unknown banner at the probe
\* reclaims its session, is not paused, and does not start another session
\* establishment while its own time-to-next-action is non-zero
C25_CooldownGovernsReentry ==
    [][ \A w \in Slots, banner \in {"instance", "unknown"} :
          (Probe(w, banner) /\ ~inst[w].is_paused)
            => /\ ~inst'[w].browser
               /\ ~inst'[w].is_paused
               /\ get_time_until_next_vote(inst'[w], clock',
                      global_hourly_limit',
                      global_reactivation_time').seconds_remaining > 0
                    => inst'[w].pc # "init" ]_vars

C22_MonitorReleasesOnlyReady ==
    [][ AutoUnpauseTick
          => \A w \in Slots :
               inst'[w] # inst[w]
                 => /\ inst[w].is_paused
                    /\ ~inst[w].excluded_from_cycles
                    /\ ~inst[w].waiting_for_login
                    /\ TimeInfo(inst[w]).seconds_remaining = 0
                    /\ ~global_hourly_limit
                    /\ w \in Values(active_instances) ]_vars

\* a worker released by the monitor: still suspended at its gate, which is
\* now open, while another worker stays paused
C22_Witness ==
    /\ auto_unpause_active
    /\ \E w \in Values(active_instances) :
         /\ inst[w].pc = "wait"
         /\ ~inst[w].is_paused
         /\ inst[w].pause_event
         /\ inst[w].status = "Resumed - Ready to Vote"

\* the workers that hold a permit of the launch gate
PermitHolders == { w \in DOMAIN inst : inst[w].holds_permit }

\* C23: every permit granted is released exactly once, whatever the end of
\* the establishment (success, error, timeout); a caller whose wait for the
\* gate times out fails and releases nothing; so the free permits and the
\* holders always add up to MAX_CONCURRENT_BROWSER_LAUNCHES, every holder is
\* inside session establishment, and with no worker inside it all permits
\* are free
C23_PermitsConserved ==
    /\ [] ( /\ browser_launch_semaphore + Cardinality(PermitHolders)
                = MAX_CONCURRENT_BROWSER_LAUNCHES
            /\ \A w \in PermitHolders :
                 inst[w].pc \in {"init", "l_init", "r_init"}
            /\ (\A w \in DOMAIN inst :
                  inst[w].pc \notin {"init", "l_init", "r_init"})
                 => browser_launch_semaphore = MAX_CONCURRENT_BROWSER_LAUNCHES )
    /\ [][ \A w \in DOMAIN inst :
             /\ \A res \in {"ok", "error", "timeout"} :
                  InitDone(w, res)
                    => /\ browser_launch_semaphore'
                            = browser_launch_semaphore + 1
                       /\ PermitHolders' = PermitHolders \ {w}
             /\ InitLockTimeout(w)
                  => /\ browser_launch_semaphore' = browser_launch_semaphore
                     /\ PermitHolders' = PermitHolders
                     /\ ~inst'[w].browser ]_vars

\* all permits free again after one establishment succeeded, one failed and
\* one caller timed out waiting for the gate
C23_Witness ==
    /\ browser_launch_semaphore = MAX_CONCURRENT_BROWSER_LAUNCHES
    /\ PermitHolders = {}
    /\ \A w \in DOMAIN inst : inst[w].pc \notin {"init", "l_init", "r_init"}
    /\ \E w \in DOMAIN inst : inst[w].browser
    /\ \E w \in DOMAIN inst : inst[w].status \in {"Error", "Init Timeout"}
    /\ \E w \in DOMAIN inst :
         inst[w].status = "Waiting for lock" /\ inst[w].pc = "sleep"

\* C24: two grants of the launch gate are at least BROWSER_LAUNCH_DELAY
\* seconds apart, so two workers inside session establishment got their
\* permits at moments that far apart
C24_GrantsSpaced ==
    \A w, v \in PermitHolders :
        w # v =>
          \/ inst[w].permit_time - inst[v].permit_time
               >= Sec(BROWSER_LAUNCH_DELAY)
          \/ inst[v].permit_time - inst[w].permit_time
               >= Sec(BROWSER_LAUNCH_DELAY)

C29_LaterOfGlobalAndOwn ==
    \A w \in Values(active_instances) :
        ( /\ time_info.at # None
          /\ global_hourly_limit
          /\ global_reactivation_time # None )
        => LET global == SecondsUntil(global_reactivation_time, time_info.at)
               own == IF inst[w].last_vote_time # None
                      THEN SecondsUntil(inst[w].last_vote_time
                                          + Minutes(VoteCooldownMinutes),
                                        time_info.at)
                      ELSE 0
           IN  /\ time_info.seconds_remaining = Max(global, own)
               /\ time_info.retry_type =
                    IF own > global
                    THEN "individual_cooldown_during_global_limit"
                    ELSE "global_limit"
               /\ time_info.next_vote_time =
                    IF own > global
                    THEN inst[w].last_vote_time + Minutes(VoteCooldownMinutes)
                    ELSE global_reactivation_time

\* asked in the last seconds of the hour, a worker that voted late in the
\* hour is given its own cooldown, which ends after the global throttle
C29_Witness ==
    /\ global_hourly_limit
    /\ time_info.at # None
    /\ time_info.retry_type = "individual_cooldown_during_global_limit"
    /\ time_info.seconds_remaining > 0
    /\ time_info.next_vote_time > global_reactivation_time
    /\ time_info.at < global_reactivation_time

\* C35: the breaker opens only when the most recent provider responses, at
\* least PROXY_503_CIRCUIT_BREAKER_THRESHOLD of them, were all 503: a
\* response that is not a 503 takes the progress toward the threshold back
C35_OnlyConsecutive503 ==
    [][ (~circuit_breaker_active /\ circuit_breaker_active')
          => streak_503' >= PROXY_503_CIRCUIT_BREAKER_THRESHOLD ]_vars

\* a step of caller c's call: its first request or a later one
CallProgress(c) ==
    \E resp \in Responses : ProxyCall(c, resp) \/ ProxyRetry(c, resp)

\* C36: a call of get_proxy_ip sends at most PROXY_MAX_RETRIES requests and
\* ends: every request either ends the call or is followed by a wait of
\* PROXY_RETRY_DELAY^(attempt+1) seconds and the next request, and the last
\* request is followed by no wait
C36_BoundedRetries ==
    /\ [] ( \A c \in Callers :
              proxy_call[c].pc = "sleep"
                => /\ proxy_call[c].attempt + 1 < PROXY_MAX_RETRIES
                   /\ proxy_call[c].wake # None )
    /\ [][ \A c \in Callers :
             CallProgress(c)
               => \/ proxy_call'[c].pc = "idle"
                  \/ /\ proxy_call'[c].pc = "sleep"
                     /\ net_requests' = net_requests + 1
                     /\ proxy_call'[c].attempt =
                          IF proxy_call[c].pc = "sleep"
                          THEN proxy_call[c].attempt + 1 ELSE 0
                     /\ proxy_call'[c].attempt < PROXY_MAX_RETRIES - 1
                     /\ proxy_call'[c].wake = clock
                          + Sec(Pow(PROXY_RETRY_DELAY,
                                    proxy_call'[c].attempt + 1)) ]_vars

\* one call has sent PROXY_MAX_RETRIES requests, none answered with an
\* address and the breaker still closed, and has ended in failure
C36_Witness ==
    /\ net_requests = PROXY_MAX_RETRIES
    /\ ~circuit_breaker_active
    /\ clock >= Sec(PROXY_RETRY_DELAY) + Sec(PROXY_RETRY_DELAY * PROXY_RETRY_DELAY)
    /\ \E c \in Callers :
         /\ proxy_call[c] = IdleCall("failed")
         /\ \A d \in Callers \ {c} : proxy_call[d] = IdleCall("none")

\* C40: an open breaker has its circuit_breaker_reset_time set, and with the
\* breaker closed consecutive_503_errors is below
\* PROXY_503_CIRCUIT_BREAKER_THRESHOLD
C40_BreakerConsistent ==
    /\ circuit_breaker_active => circuit_breaker_reset_time # None
    /\ ~circuit_breaker_active
         => consecutive_503_errors < PROXY_503_CIRCUIT_BREAKER_THRESHOLD

\* a breaker that opened, was closed again by a call after its window, and
\* has since counted another 503
C40_Witness ==
    /\ ~circuit_breaker_active
    /\ circuit_breaker_reset_time # None
    /\ consecutive_503_errors > 0
    /\ consecutive_503_errors < PROXY_503_CIRCUIT_BREAKER_THRESHOLD

\* the establishment run by worker w's cycle ends in failure
InitFails(w) ==
    /\ inst[w].pc = "init"
    /\ \/ InitLockTimeout(w)
       \/ \E res \in {"error", "timeout"} : InitDone(w, res)

\* C34: after the n-th consecutive failed session establishment of the cycle
\* the worker waits 30, 60, 120, 240 seconds for n = 1..4; the counter goes
\* back to 0 at a successful establishment and at the hard pause of the 5th
\* failure, and is always within 0..4
C34_Backoff ==
    /\ [] ( \A w \in DOMAIN inst :
              inst[w].consecutive_init_failures \in 0..(InitFailureCap - 1) )
    /\ [][ \A w \in DOMAIN inst :
             /\ InitFails(w)
                  => LET n == inst[w].consecutive_init_failures + 1
                     IN  IF n < InitFailureCap
                         THEN /\ inst'[w].consecutive_init_failures = n
                              /\ inst'[w].pc = "sleep"
                              /\ inst'[w].wake = clock
                                   + Sec(<< 30, 60, 120, 240 >>[n])
                         ELSE inst'[w].consecutive_init_failures = 0
             /\ (inst[w].pc = "init" /\ InitDone(w, "ok"))
                  => inst'[w].consecutive_init_failures = 0 ]_vars

\* a worker asleep after its fourth failure in a row, all four in this run
C34_Witness ==
    \E w \in DOMAIN inst :
        /\ inst[w].consecutive_init_failures = InitFailureCap - 1
        /\ inst[w].pc = "sleep"
        /\ clock > 0
        /\ inst[w].wake = clock + Sec(240)

\* C32: a worker of the cycle that is idle, asleep in a delay or blocked on
\* its pause gate, holds no session
C32_IdleHoldsNothing ==
    \A w \in DOMAIN inst :
        inst[w].pc \in {"sleep", "wait"} => ~inst[w].browser

\* C33: a worker excluded because a login requirement was detected shows
\* the login-required status, the one the control surface reports, in every
\* state from then on
C33_ExcludedStatusKept ==
    \A w \in DOMAIN inst :
        inst[w].excluded_from_cycles
          => inst[w].status = "Login Required - EXCLUDED"

\* C31: with both counter reads available, vote_count is incremented only
\* when the counter rose by exactly 1 over the value read before the first
\* click, on the first read or on the read after the retry click; a rise
\* above 1 is never counted
C31_ExactlyOne ==
    [][ \A w \in Slots, i \in 0..MaxCount, f \in 0..MaxCount, r \in Counts,
           rest \in AllOutcomes :
          ( /\ CountedAct(w, i, f, r, rest)
            /\ inst'[w].vote_count = inst[w].vote_count + 1 )
          => \/ f - i = 1
             \/ r # None /\ r - i = 1 ]_vars

\* C38: clearing a worker's pause is idempotent. Whichever of the worker's
\* own self-unpause and the monitor releases a worker, the worker is left
\* unpaused, its gate open and its status "Resumed - Ready to Vote", its
\* other fields as they were; the one that comes second finds the worker
\* released and changes nothing; the monitor never moves a worker, so the
\* worker's single task passes the gate once
C38_ReleaseIdempotent ==
    [][ \A w \in Slots :
          /\ ( /\ inst[w].is_paused /\ ~inst'[w].is_paused
               /\ inst'[w].pc # "none" )
               => /\ inst'[w].pause_event
                  /\ inst'[w].status = "Resumed - Ready to Vote"
                  /\ [ inst'[w] EXCEPT !.pc = "wait", !.wake = None ]
                       = [ inst[w] EXCEPT !.is_paused = FALSE,
                                          !.pause_event = TRUE,
                                          !.status = "Resumed - Ready to Vote",
                                          !.pc = "wait", !.wake = None ]
          /\ (AutoUnpauseTick /\ ~inst[w].is_paused) => inst'[w] = inst[w]
          /\ AutoUnpauseTick => inst'[w].pc = inst[w].pc
          /\ ((Wake(w) \/ CycleStart(w)) /\ ~inst[w].is_paused)
               => /\ self_unpause(inst[w]) = inst[w]
                  /\ ~inst'[w].is_paused
                  /\ inst'[w].pause_event = inst[w].pause_event
                  /\ inst'[w].status = inst[w].status ]_vars

\* with the monitor running, a worker that was released has passed its gate
\* and is at its next establishment, still showing the status of the release
C38_Witness ==
    /\ auto_unpause_active
    /\ \E w \in Values(active_instances) :
         /\ inst[w].pc = "init"
         /\ ~inst[w].is_paused
         /\ inst[w].pause_event
         /\ inst[w].status = "Resumed - Ready to Vote"

\* C37: when a close_browser call returns, the page, context, browser and
\* playwright references of the instance are all nil, whatever each of its
\* teardown steps did; every step clears its reference and the call moves
\* on to a later step or returns
C37_AllNilAfterClose ==
    [][ \A w \in Slots, c \in CloseCallers :
          /\ ( \/ inst[w].closing[c] > 0 /\ inst'[w].closing[c] = 0
               \/ /\ c = "cycle"
                  /\ \E ok \in BOOLEAN : EstablishStep(w, ok)
                  /\ inst'[w].pc = "sleep" )
               => /\ ~inst'[w].page /\ ~inst'[w].context
                  /\ ~inst'[w].browser /\ ~inst'[w].playwright
          /\ ( /\ inst[w].closing[c] > 0
               /\ inst'[w].closing[c] # inst[w].closing[c] )
               => /\ ~holds(inst'[w], TeardownSteps[inst[w].closing[c]])
                  /\ \/ inst'[w].closing[c] = 0
                     \/ inst'[w].closing[c] > inst[w].closing[c] ]_vars

\* a worker in mid-cycle whose session the monitor has reclaimed
Reclaimed(w) == inst[w].pc \in MidCycle /\ ~inst[w].page

=============================================================================
